---- MODULE Spec2Model ----
(***************************************************************************)
(* Model of the profile-delta engine of ant-sf (py/profile_delta.py with   *)
(* the lxml helpers of py/tools_lxml.py).                                  *)
(*                                                                         *)
(* An XML element is a record [ns, tag, text, kids]: its namespace URI     *)
(* ("" for none), its local name, its text (<<>> for Python's None, <<s>>  *)
(* for the string s) and the sequence of its child elements.  A document   *)
(* is its root element.                                                    *)
(***************************************************************************)
EXTENDS Integers, Sequences, FiniteSets, TLC

VARIABLES
    pc,                   \* position of the run
    parent_order,         \* iteration order of the PARENTS dict in this process
    profile_path_output,  \* main's third argument (a sequence of characters)
    source_file,          \* what etree.parse found at profile_path_source
    target_file,          \* what etree.parse found at profile_path_target
    source_root,          \* the source tree in memory
    target_root,          \* the target tree in memory
    root,                 \* the output tree in memory
    names,                \* per family, the name set diff_elements returned
    out_file,             \* content of the file at profile_path_output
    writes,               \* how many times the output file was opened for writing
    stdout,               \* the lines printed
    exit_status,          \* the process exit status, -1 while running
    uncaught,             \* the exception that ended the run, "" if none
    file_ops,             \* the file-system operations of the run, in order
    call_test_mode,       \* the test_mode argument of a library call
    call_parent_name,     \* the parent_name argument of a library call
    call_args,            \* the further arguments of a library call
    count,                \* conform_metadata's count of the files written back
    pruned_twice,         \* what prune_elements returns for its own result
    callbacks,            \* the do_yield calls of a library call, in order
    files                 \* per source directory, the metadata files in it

vars == <<pc, parent_order, profile_path_output, source_file, target_file,
          source_root, target_root, root, names, out_file, writes, stdout,
          exit_status, uncaught, file_ops, call_test_mode, call_parent_name,
          call_args, count, pruned_twice, callbacks, files>>

\* What a run of main never touches.
call_vars == <<call_test_mode, call_parent_name, call_args, count,
               pruned_twice, callbacks, files>>

\* What a library call never touches.
run_vars == <<profile_path_output, out_file, writes, stdout, exit_status,
              uncaught, file_ops>>

----------------------------------------------------------------------------
(* tools_lxml.py                                                           *)

\* SF_URI and SF_PREFIX of the source (a TLA+ name cannot start with SF_).
SFORCE_URI == "http://soap.sforce.com/2006/04/metadata"
SFORCE_PREFIX == "md"

\* Python's None, where a string may stand.
None == "None object"

\* The text of an element: <<>> is Python's None.
NoText == <<>>
Text(s) == <<s>>

Node(ns, tag, text, kids) == [ns |-> ns, tag |-> tag, text |-> text, kids |-> kids]

\* The prefix map handed to find/findall: empty in test mode.
namespace_declare(test_mode) ==
    IF test_mode THEN <<>> ELSE (SFORCE_PREFIX :> SFORCE_URI)

\* A slip: the prefix is left off in either mode.
namespace_prepend_bare(match_string, test_mode) == <<"", match_string>>

\* The path handed to find/findall, as <<prefix, local name>>.
namespace_prepend(match_string, test_mode) ==
    IF test_mode THEN <<"", match_string>> ELSE <<SFORCE_PREFIX, match_string>>

\* Python's None, where a tree may stand.
NoTree == Node("", None, NoText, <<>>)

\* Python's None, where a path may stand.
NoPath == <<None>>

sforce_root(root_name) == Node(SFORCE_URI, root_name, NoText, <<>>)

\* etree.SubElement(parent, tag): a new last child, in no namespace.
SubElement(parent, tag) ==
    [parent EXCEPT !.kids = Append(@, Node("", tag, NoText, <<>>))]

----------------------------------------------------------------------------
(* lxml's find and findall over the direct children of an element          *)

\* The qualified name a path <<prefix, local>> stands for under a prefix map.
Resolve(match, ns) ==
    [ns  |-> IF match[1] = "" THEN "" ELSE ns[match[1]],
     tag |-> match[2]]

Matches(node, match, ns) ==
    LET q == Resolve(match, ns) IN node.ns = q.ns /\ node.tag = q.tag

\* element.findall(path, ns): the positions of the matching children, in
\* document order (a list built before the loop runs).
FindAll(element, match, ns) ==
    LET RECURSIVE From(_)
        From(i) == IF i > Len(element.kids) THEN <<>>
                   ELSE IF Matches(element.kids[i], match, ns)
                        THEN <<i>> \o From(i + 1)
                        ELSE From(i + 1)
    IN From(1)

\* element.find(path, ns): the position of the first matching child, 0 for None.
Find(element, match, ns) ==
    LET pv == FindAll(element, match, ns)
    IN IF pv = <<>> THEN 0 ELSE pv[1]

RECURSIVE deepcopy(_)
deepcopy(node) ==
    Node(node.ns, node.tag, node.text,
         [i \in 1..Len(node.kids) |-> deepcopy(node.kids[i])])

----------------------------------------------------------------------------
(* profile_delta.py: the schema table                                      *)

PARENTS ==
    [applicationVisibilities |-> <<"application", "visible">>,
     classAccesses           |-> <<"apexClass", "enabled">>,
     fieldPermissions        |-> <<"field", "readable">>,
     layoutAssignments       |-> <<"layout", "None">>,
     objectPermissions       |-> <<"object", "allowRead">>,
     pageAccesses            |-> <<"apexPage", "enabled">>,
     recordTypeVisibilities  |-> <<"recordType", "visible">>,
     tabVisibilities         |-> <<"tab", "visibility">>]

\* Positions in a PARENTS entry (sequences count from 1).
EXTRACT_CHILD == 1
FETCH_CHILD == 1
PRUNE_CHILD == 2

Families == DOMAIN PARENTS

\* The dict's keys as written, and the orders a dict may iterate them in.
DeclaredOrder ==
    <<"applicationVisibilities", "classAccesses", "fieldPermissions",
      "layoutAssignments", "objectPermissions", "pageAccesses",
      "recordTypeVisibilities", "tabVisibilities">>

Reverse(s) == [i \in 1..Len(s) |-> s[Len(s) + 1 - i]]

ParentOrders == {DeclaredOrder, Reverse(DeclaredOrder)}

----------------------------------------------------------------------------
(* profile_delta.py: FindElements and its three strategies                 *)
(* The strategy object is a record [my_source, my_target, my_names,        *)
(* removed]: removed holds the positions of my_source's children that      *)
(* remove() has detached so far.                                           *)

\* A slip: the test of the name is turned round.
ExtractElements_do_yield_negated(self, i, child_text) ==
    IF child_text \notin self.my_names
    THEN [self EXCEPT !.my_target.kids =
                          Append(@, deepcopy(self.my_source.kids[i]))]
    ELSE self

\* A slip: the copy is made without looking the name up.
ExtractElements_do_yield_unfiltered(self, i, child_text) ==
    [self EXCEPT !.my_target.kids = Append(@, deepcopy(self.my_source.kids[i]))]

\* A slip: the element itself is appended, which moves it out of my_source.
ExtractElements_do_yield_moving(self, i, child_text) ==
    IF child_text \in self.my_names
    THEN [self EXCEPT !.my_target.kids = Append(@, self.my_source.kids[i]),
                      !.removed = @ \cup {i}]
    ELSE self

ExtractElements_do_yield(self, i, child_text) ==
    IF child_text \in self.my_names
    THEN [self EXCEPT !.my_target.kids =
                          Append(@, deepcopy(self.my_source.kids[i]))]
    ELSE self

FetchElements_do_yield(self, i, child_text) ==
    [self EXCEPT !.my_names = @ \cup {child_text}]

\* A slip: the text "None" is not looked for.
PruneFalseElements_do_yield_false_only(self, i, child_text) ==
    IF child_text = "false"
    THEN [self EXCEPT !.removed = @ \cup {i}]
    ELSE self

\* A slip: the gate is parsed as a boolean.
PruneFalseElements_do_yield_falsy(self, i, child_text) ==
    IF child_text \in {"false", "None", "False", "0"}
    THEN [self EXCEPT !.removed = @ \cup {i}]
    ELSE self

\* A slip: the loop runs over the live children, so the element that follows
\* a detached one is passed over.
PruneFalseElements_do_yield_skipping(self, i, child_text) ==
    IF child_text \in {"false", "None"} /\ (i - 1) \notin self.removed
    THEN [self EXCEPT !.removed = @ \cup {i}]
    ELSE self

PruneFalseElements_do_yield(self, i, child_text) ==
    IF child_text \in {"false", "None"}
    THEN [self EXCEPT !.removed = @ \cup {i}]
    ELSE self

do_yield(strategy, self, i, child_text) ==
    CASE strategy = "extract" -> ExtractElements_do_yield(self, i, child_text)
      [] strategy = "fetch"   -> FetchElements_do_yield(self, i, child_text)
      [] strategy = "prune"   -> PruneFalseElements_do_yield(self, i, child_text)

\* The children of element that are left once those at the positions in
\* removed are detached.
Detach(element, removed) ==
    LET RECURSIVE From(_)
        From(i) == IF i > Len(element.kids) THEN <<>>
                   ELSE IF i \in removed THEN From(i + 1)
                        ELSE <<element.kids[i]>> \o From(i + 1)
    IN [element EXCEPT !.kids = From(1)]

\* What the traversal leaves of the tree it ran over.
my_source_after(self) == Detach(self.my_source, self.removed)

do_return(strategy, self) ==
    CASE strategy = "extract" -> self.my_target
      [] strategy = "fetch"   -> self.my_names
      [] strategy = "prune"   -> my_source_after(self)

\* A slip: the child's text is handed on without a look at it, None included.
do_loop_unguarded(strategy, test_mode, source, target, parent_name, child_name, my_names) ==
    LET ns == namespace_declare(test_mode)
        parent_name_match == namespace_prepend(parent_name, test_mode)
        pv == FindAll(source, parent_name_match, ns)
        child_name_match == namespace_prepend(child_name, test_mode)
        RECURSIVE Loop(_, _)
        Loop(self, k) ==
            IF k > Len(pv) THEN self
            ELSE LET parent == source.kids[pv[k]]
                     c == Find(parent, child_name_match, ns)
                 IN IF c # 0
                    THEN Loop(do_yield(strategy, self, pv[k],
                                       IF parent.kids[c].text = NoText
                                       THEN None
                                       ELSE parent.kids[c].text[1]), k + 1)
                    ELSE Loop(self, k + 1)
    IN Loop([my_source |-> source, my_target |-> target,
             my_names |-> my_names, removed |-> {}], 1)

\* FindElements.do, up to its return statement: the strategy object the loop
\* leaves.
do_loop(strategy, test_mode, source, target, parent_name, child_name, my_names) ==
    LET ns == namespace_declare(test_mode)
        parent_name_match == namespace_prepend(parent_name, test_mode)
        pv == FindAll(source, parent_name_match, ns)
        child_name_match == namespace_prepend(child_name, test_mode)
        RECURSIVE Loop(_, _)
        Loop(self, k) ==
            IF k > Len(pv) THEN self
            ELSE LET parent == source.kids[pv[k]]
                     c == Find(parent, child_name_match, ns)
                 IN IF c # 0 /\ parent.kids[c].text # NoText
                    THEN Loop(do_yield(strategy, self, pv[k],
                                       parent.kids[c].text[1]), k + 1)
                    ELSE Loop(self, k + 1)
    IN Loop([my_source |-> source, my_target |-> target,
             my_names |-> my_names, removed |-> {}], 1)

\* FindElements.do
do(strategy, test_mode, source, target, parent_name, child_name, my_names) ==
    do_return(strategy, do_loop(strategy, test_mode, source, target,
                                parent_name, child_name, my_names))

\* One call of do_yield: the family searched, the element handed over and the
\* text of its child.
Callback(parent_name, parent, child_text) ==
    [parent_name |-> parent_name, parent |-> parent, child_text |-> child_text]

\* A slip: do_yield is called for every element that has the child, with
\* None for the text of an empty one.
do_yield_calls_unguarded(test_mode, source, parent_name, child_name) ==
    LET ns == namespace_declare(test_mode)
        parent_name_match == namespace_prepend(parent_name, test_mode)
        pv == FindAll(source, parent_name_match, ns)
        child_name_match == namespace_prepend(child_name, test_mode)
        RECURSIVE Loop(_)
        Loop(k) ==
            IF k > Len(pv) THEN <<>>
            ELSE LET parent == source.kids[pv[k]]
                     c == Find(parent, child_name_match, ns)
                 IN IF c # 0
                    THEN <<Callback(parent_name, parent,
                                    IF parent.kids[c].text = NoText THEN None
                                    ELSE parent.kids[c].text[1])>>
                         \o Loop(k + 1)
                    ELSE Loop(k + 1)
    IN Loop(1)

\* The calls of do_yield the loop of FindElements.do makes, in order.
do_yield_calls(test_mode, source, parent_name, child_name) ==
    LET ns == namespace_declare(test_mode)
        parent_name_match == namespace_prepend(parent_name, test_mode)
        pv == FindAll(source, parent_name_match, ns)
        child_name_match == namespace_prepend(child_name, test_mode)
        RECURSIVE Loop(_)
        Loop(k) ==
            IF k > Len(pv) THEN <<>>
            ELSE LET parent == source.kids[pv[k]]
                     c == Find(parent, child_name_match, ns)
                 IN IF c # 0 /\ parent.kids[c].text # NoText
                    THEN <<Callback(parent_name, parent,
                                    parent.kids[c].text[1])>>
                         \o Loop(k + 1)
                    ELSE Loop(k + 1)
    IN Loop(1)

\* A slip: the loop over the families ends after its first round.
prune_elements_first_family(root_, order, test_mode) ==
    do("prune", test_mode, root_, NoTree, order[1],
       PARENTS[order[1]][PRUNE_CHILD], {})

prune_elements(root_, order, test_mode) ==
    LET RECURSIVE Loop(_, _)
        Loop(r, k) ==
            IF k > Len(order) THEN r
            ELSE Loop(do("prune", test_mode, r, NoTree, order[k],
                         PARENTS[order[k]][PRUNE_CHILD], {}), k + 1)
    IN Loop(root_, 1)

\* The calls of PruneFalseElements.do_yield that prune_elements makes, round
\* by round over the families.
prune_elements_calls(root_, order, test_mode) ==
    LET RECURSIVE Loop(_, _)
        Loop(r, k) ==
            IF k > Len(order) THEN <<>>
            ELSE do_yield_calls(test_mode, r, order[k],
                                PARENTS[order[k]][PRUNE_CHILD])
                 \o Loop(do("prune", test_mode, r, NoTree, order[k],
                            PARENTS[order[k]][PRUNE_CHILD], {}), k + 1)
    IN Loop(root_, 1)

\* A slip: the names of every family are fetched together.
fetch_elements_any_family(root_, parent_name, test_mode) ==
    UNION {do("fetch", test_mode, root_, NoTree, f,
              PARENTS[f][FETCH_CHILD], {}) : f \in Families}

fetch_elements(root_, parent_name, test_mode) ==
    do("fetch", test_mode, root_, NoTree, parent_name,
       PARENTS[parent_name][FETCH_CHILD], {})

\* A slip: the difference is taken the wrong way round.
diff_elements_swapped(source, target, parent_name, test_mode) ==
    fetch_elements(source, parent_name, test_mode)
        \ fetch_elements(target, parent_name, test_mode)

\* A slip: the source names are not taken away.
diff_elements_no_difference(source, target, parent_name, test_mode) ==
    fetch_elements(target, parent_name, test_mode)

diff_elements(source, target, parent_name, test_mode) ==
    LET source_names == fetch_elements(source, parent_name, test_mode)
        target_names == fetch_elements(target, parent_name, test_mode)
    IN target_names \ source_names

\* The two documents as the two fetch_elements calls of diff_elements leave
\* them.
diff_elements_trees(source, target, parent_name, test_mode) ==
    [source |-> my_source_after(
                    do_loop("fetch", test_mode, source, NoTree, parent_name,
                            PARENTS[parent_name][FETCH_CHILD], {})),
     target |-> my_source_after(
                    do_loop("fetch", test_mode, target, NoTree, parent_name,
                            PARENTS[parent_name][FETCH_CHILD], {}))]

\* The loop of extract_elements: the output tree it builds, and the target
\* document as the ExtractElements traversals leave it (what the fetches
\* of diff_elements leave is diff_elements_trees).  Each round's trees are
\* bound as values before the next round starts, which keeps the evaluation
\* shallow.
extract_elements_trees(source_root_, target_root_, root_name_, order, test_mode) ==
    LET RECURSIVE Loop(_, _)
        Loop(t, k) ==
            IF k > Len(order) THEN t
            ELSE LET my_names == diff_elements(t.source, t.target, order[k],
                                               test_mode)
                     self == do_loop("extract", test_mode, t.target,
                                     t.root, order[k],
                                     PARENTS[order[k]][EXTRACT_CHILD],
                                     my_names)
                     left == [root   |-> do_return("extract", self),
                              source |-> t.source,
                              target |-> my_source_after(self)]
                 IN CHOOSE t_ \in {Loop(v, k + 1) : v \in {left}} : TRUE
    IN Loop([root   |-> sforce_root(root_name_),
             source |-> source_root_,
             target |-> target_root_], 1)

extract_elements(source_root_, target_root_, root_name_, order, test_mode) ==
    extract_elements_trees(source_root_, target_root_, root_name_, order,
                           test_mode).root

----------------------------------------------------------------------------
(* profile_delta.py: the example documents of the doctests                 *)

example_class_access_element(root_, class_name, is_enabled) ==
    LET parent == Node("", "classAccesses", NoText,
                       <<Node("", "apexClass", Text(class_name), <<>>),
                         Node("", "enabled", Text(is_enabled), <<>>)>>)
    IN [root_ EXCEPT !.kids = Append(@, parent)]

example_profile_metadata_source ==
    example_class_access_element(
        example_class_access_element(sforce_root("Profile"),
                                     "ARTransactionsTest", "false"),
        "AccountAddressManager", "true")

example_profile_metadata_target ==
    example_class_access_element(
        example_class_access_element(example_profile_metadata_source,
                                     "AccountHierarchyBuilder", "true"),
        "TransactionTestData", "false")

----------------------------------------------------------------------------
(* tools_lxml.py: save_tree's etree.tostring, as the tree a parser reads   *)
(* back from the text written.  An element in no namespace is written as   *)
(* a bare tag, so under an ancestor that declares a default namespace it   *)
(* is read back in that namespace (the doctests of profile_delta.py print  *)
(* SubElement children of sforce_root that way).                           *)

RECURSIVE Reparse(_, _)
Reparse(node, default_ns) ==
    LET here == IF node.ns = "" THEN default_ns ELSE node.ns
    IN Node(here, node.tag, node.text,
            [i \in 1..Len(node.kids) |-> Reparse(node.kids[i], here)])

\* A slip: the text keeps an element without namespace out of the namespace
\* its parent declares.
tostring_undeclaring(root_) == root_

tostring(root_) == Reparse(root_, "")

----------------------------------------------------------------------------
(* profile_delta.py: is_profile, root_name.  A path is a sequence of       *)
(* characters.                                                             *)

DotProfile == <<".", "p", "r", "o", "f", "i", "l", "e">>
DotPermissionSet ==
    <<".", "p", "e", "r", "m", "i", "s", "s", "i", "o", "n", "s", "e", "t">>

\* Python's `needle in haystack` on strings.
Contains(haystack, needle) ==
    \E i \in 1..(Len(haystack) - Len(needle) + 1) :
        SubSeq(haystack, i, i + Len(needle) - 1) = needle

is_profile(path) == Contains(path, DotProfile)

root_name(path) == IF is_profile(path) THEN "Profile" ELSE "PermissionSet"

----------------------------------------------------------------------------
(* The inputs of a run                                                     *)

\* How many family elements source and target hold together.
MaxElems == 3

profile_path_source == <<"8", "/", "c">> \o DotProfile
profile_path_target == <<"9", "/", "c">> \o DotProfile

OutputPaths ==
    { <<"o", "/", "c">> \o DotProfile,
      <<"o", "/", "g">> \o DotPermissionSet,
      <<"o">> \o DotProfile \o <<"/", "g">> \o DotPermissionSet }

\* The text lxml gives an element: None for an empty one.
TextOf(s) == IF s = "" THEN NoText ELSE Text(s)

\* A permission element in namespace ns: its key child and its gate child,
\* each left out when its text is given as None and empty when it is "".
PermissionNs(ns, parent_name, key_name, key_text, gate_name, gate_text) ==
    Node(ns, parent_name, NoText,
         (IF key_text = None THEN <<>>
          ELSE <<Node(ns, key_name, TextOf(key_text), <<>>)>>)
         \o (IF gate_text = None THEN <<>>
             ELSE <<Node(ns, gate_name, TextOf(gate_text), <<>>)>>))

\* A permission element of a metadata file.
Permission(parent_name, key_name, key_text, gate_name, gate_text) ==
    PermissionNs(SFORCE_URI, parent_name, key_name, key_text, gate_name,
                 gate_text)

FileElems ==
    { Permission("classAccesses", "apexClass", "AccountAddressManager",
                 "enabled", "true"),
      Permission("classAccesses", "apexClass", "AccountAddressManager",
                 "enabled", "false"),
      Permission("classAccesses", "apexClass", "AccountHierarchyBuilder",
                 "enabled", "true"),
      Permission("layoutAssignments", "layout", "AccountAddressManager",
                 "recordType", None),
      Permission("classAccesses", "apexClass", None, "enabled", "true"),
      Permission("tabVisibilities", "tab", "AccountAddressManager",
                 "visibility", "None"),
      Permission("userPermissions", "name", "ViewSetup", "enabled", "true") }

\* The sequences over S of length at most n.
SeqsUpTo(S, n) == UNION {[1..k -> S] : k \in 0..n}

ProfileFile(kids) == Node(SFORCE_URI, "Profile", NoText, kids)

\* What etree.parse may find at a path: no readable file, a file that is not
\* well-formed XML, or a document.
File(found, tree) == [found |-> found, tree |-> tree]

Unread == File("unread", NoTree)

FileStates(n, example) ==
    {File("missing", NoTree), File("malformed", NoTree),
     File("document", tostring(example))}
        \cup {File("document", ProfileFile(kids)) :
                  kids \in SeqsUpTo(FileElems, n)}

----------------------------------------------------------------------------
(* profile_delta.py: main, one action per statement                        *)

Init ==
    /\ pc = "main"
    /\ parent_order \in ParentOrders
    /\ profile_path_output = NoPath
    /\ source_file = Unread
    /\ target_file = Unread
    /\ source_root = NoTree
    /\ target_root = NoTree
    /\ root = NoTree
    /\ names = [f \in Families |-> {}]
    /\ out_file = NoTree
    /\ writes = 0
    /\ stdout = <<>>
    /\ exit_status = -1
    /\ uncaught = ""
    /\ file_ops = <<>>
    /\ call_test_mode = FALSE
    /\ call_parent_name = None
    /\ call_args = <<>>
    /\ count = 0
    /\ pruned_twice = NoTree
    /\ callbacks = <<>>
    /\ files = <<>>

\* An exception nobody catches ends the process with status 1.
Raise(exception) ==
    /\ pc' = "raised"
    /\ uncaught' = exception
    /\ exit_status' = 1

\* A slip: the run ends with status 0.
Exit0 ==
    /\ pc' = "exited"
    /\ exit_status' = 0
    /\ UNCHANGED uncaught

\* sys.exit(1)
Exit1 ==
    /\ pc' = "exited"
    /\ exit_status' = 1
    /\ UNCHANGED uncaught

NotAvailable(path) == [path |-> path, text |-> "is not available."]

\* A file-system operation: etree.parse(path) or open(path, 'w').
FileOp(op, path) == [op |-> op, path |-> path]

main_check_values ==
    /\ pc = "main"
    /\ \E p \in OutputPaths \cup {NoPath} :
        /\ profile_path_output' = p
        /\ IF p = NoPath
           THEN Raise("ValueError")
           ELSE pc' = "main_prune_source" /\ UNCHANGED <<uncaught, exit_status>>
    /\ UNCHANGED <<call_vars, parent_order, source_file, target_file, source_root,
                   target_root, root, names, out_file, writes, stdout,
                   file_ops>>

\* A slip: a missing source is reported and the run goes on.
main_prune_source_continuing ==
    /\ pc = "main_prune_source"
    /\ \E f \in FileStates(MaxElems, example_profile_metadata_source) :
        /\ source_file' = f
        /\ file_ops' = Append(file_ops, FileOp("read", profile_path_source))
        /\ CASE f.found = "missing" ->
                  /\ stdout' = Append(stdout, NotAvailable(profile_path_source))
                  /\ pc' = "main_prune_target"
                  /\ UNCHANGED <<source_root, exit_status, uncaught>>
             [] f.found = "malformed" ->
                  /\ Raise("XMLSyntaxError")
                  /\ UNCHANGED <<source_root, stdout>>
             [] OTHER ->
                  /\ source_root' = prune_elements(f.tree, parent_order, FALSE)
                  /\ pc' = "main_prune_target"
                  /\ UNCHANGED <<stdout, exit_status, uncaught>>
    /\ UNCHANGED <<call_vars, parent_order, profile_path_output, target_file, target_root,
                   root, names, out_file, writes>>

main_prune_source ==
    /\ pc = "main_prune_source"
    /\ \E f \in FileStates(MaxElems, example_profile_metadata_source) :
        /\ source_file' = f
        /\ file_ops' = Append(file_ops, FileOp("read", profile_path_source))
        /\ CASE f.found = "missing" ->
                  /\ stdout' = Append(stdout, NotAvailable(profile_path_source))
                  /\ Exit1
                  /\ UNCHANGED source_root
             [] f.found = "malformed" ->
                  /\ Raise("XMLSyntaxError")
                  /\ UNCHANGED <<source_root, stdout>>
             [] OTHER ->
                  /\ source_root' = prune_elements(f.tree, parent_order, FALSE)
                  /\ pc' = "main_prune_target"
                  /\ UNCHANGED <<stdout, exit_status, uncaught>>
    /\ UNCHANGED <<call_vars, parent_order, profile_path_output, target_file, target_root,
                   root, names, out_file, writes>>

\* A slip: the target is parsed and handed on as it is.
main_prune_target_unpruned ==
    /\ pc = "main_prune_target"
    /\ \E f \in FileStates(MaxElems - Len(source_file.tree.kids),
                           example_profile_metadata_target) :
        /\ target_file' = f
        /\ file_ops' = Append(file_ops, FileOp("read", profile_path_target))
        /\ CASE f.found = "missing" ->
                  /\ stdout' = Append(stdout, NotAvailable(profile_path_target))
                  /\ Exit1
                  /\ UNCHANGED target_root
             [] f.found = "malformed" ->
                  /\ Raise("XMLSyntaxError")
                  /\ UNCHANGED <<target_root, stdout>>
             [] OTHER ->
                  /\ target_root' = f.tree
                  /\ pc' = "extract_elements"
                  /\ UNCHANGED <<stdout, exit_status, uncaught>>
    /\ UNCHANGED <<call_vars, parent_order, profile_path_output, source_file, source_root,
                   root, names, out_file, writes>>

main_prune_target ==
    /\ pc = "main_prune_target"
    /\ \E f \in FileStates(MaxElems - Len(source_file.tree.kids),
                           example_profile_metadata_target) :
        /\ target_file' = f
        /\ file_ops' = Append(file_ops, FileOp("read", profile_path_target))
        /\ CASE f.found = "missing" ->
                  /\ stdout' = Append(stdout, NotAvailable(profile_path_target))
                  /\ Exit1
                  /\ UNCHANGED target_root
             [] f.found = "malformed" ->
                  /\ Raise("XMLSyntaxError")
                  /\ UNCHANGED <<target_root, stdout>>
             [] OTHER ->
                  /\ target_root' = prune_elements(f.tree, parent_order, FALSE)
                  /\ pc' = "extract_elements"
                  /\ UNCHANGED <<stdout, exit_status, uncaught>>
    /\ UNCHANGED <<call_vars, parent_order, profile_path_output, source_file, source_root,
                   root, names, out_file, writes>>

main_extract_elements ==
    /\ pc = "extract_elements"
    /\ names' = [f \in Families |->
                    diff_elements(source_root, target_root, f, FALSE)]
    /\ \E left \in {extract_elements_trees(source_root, target_root,
                                             root_name(profile_path_output),
                                             parent_order, FALSE)} :
          /\ root' = left.root
          /\ source_root' = left.source
          /\ target_root' = left.target
    /\ pc' = "label"
    /\ UNCHANGED <<call_vars, parent_order, profile_path_output, source_file, target_file,
                   out_file, writes, stdout, exit_status, uncaught, file_ops>>

\* A slip: append adds the element again and leaves it where it was.
append_child_again(root_, i) ==
    [root_ EXCEPT !.kids = Append(@, @[i])]

\* root.append(element) for the child at position i of root: lxml moves the
\* element to the end.
append_child(root_, i) ==
    [root_ EXCEPT !.kids =
        SubSeq(@, 1, i - 1) \o SubSeq(@, i + 1, Len(@)) \o <<@[i]>>]

\* Lines 421-424 of main: the label of a permission set.
label(root_, path) ==
    IF ~is_profile(path)
    THEN LET made == SubElement(root_, "label")
             n == Len(made.kids)
             with_text == [made EXCEPT !.kids[n].text = Text("Community Hub Guest")]
         IN append_child(with_text, n)
    ELSE root_

main_label ==
    /\ pc = "label"
    /\ root' = label(root, profile_path_output)
    /\ pc' = "save_tree"
    /\ UNCHANGED <<call_vars, parent_order, profile_path_output, source_file, target_file,
                   source_root, target_root, names, out_file, writes, stdout,
                   exit_status, uncaught, file_ops>>

\* A slip: the file is written once before the label is made and once more
\* at the end.
save_tree_twice ==
    /\ pc = "save_tree"
    /\ file_ops' = Append(file_ops, FileOp("write", profile_path_output))
    /\ \E writable \in BOOLEAN :
        IF writable
        THEN /\ out_file' = tostring(root)
             /\ writes' = writes + 2
             /\ pc' = "done"
             /\ exit_status' = 0
             /\ UNCHANGED uncaught
        ELSE /\ Raise("IOError")
             /\ UNCHANGED <<out_file, writes>>
    /\ UNCHANGED <<call_vars, parent_order, profile_path_output, source_file, target_file,
                   source_root, target_root, root, names, stdout>>

\* save_tree: open() raises IOError when the path cannot be written.
save_tree ==
    /\ pc = "save_tree"
    /\ file_ops' = Append(file_ops, FileOp("write", profile_path_output))
    /\ \E writable \in BOOLEAN :
        IF writable
        THEN /\ out_file' = tostring(root)
             /\ writes' = writes + 1
             /\ pc' = "done"
             /\ exit_status' = 0
             /\ UNCHANGED uncaught
        ELSE /\ Raise("IOError")
             /\ UNCHANGED <<out_file, writes>>
    /\ UNCHANGED <<call_vars, parent_order, profile_path_output, source_file, target_file,
                   source_root, target_root, root, names, stdout>>

Next ==
    \/ main_check_values
    \/ main_prune_source
    \/ main_prune_target
    \/ main_extract_elements
    \/ main_label
    \/ save_tree

Spec == Init /\ [][Next]_vars

----------------------------------------------------------------------------
(* Library calls: diff_elements and extract_elements on any two documents  *)

\* How many elements the two documents of a call hold together.
MaxCallElems == 3

\* The namespace a traversal in the given mode looks in, and the other one.
ModeNs(mode) == IF mode THEN "" ELSE SFORCE_URI
OtherNs(mode) == IF mode THEN SFORCE_URI ELSE ""

\* Another family than the one under test.
OtherFamily(family) ==
    IF family = "classAccesses" THEN "pageAccesses" ELSE "classAccesses"

\* The elements the documents of a call on one family are made of: that
\* family's elements with two keys and with no key child, one element of
\* another family and one of the other namespace.
CallElems(family, mode) ==
    LET key == PARENTS[family][FETCH_CHILD]
        gate == PARENTS[family][PRUNE_CHILD]
        other == OtherFamily(family)
    IN { PermissionNs(ModeNs(mode), family, key, "AccountAddressManager",
                      gate, "true"),
         PermissionNs(ModeNs(mode), family, key, "AccountHierarchyBuilder",
                      gate, "false"),
         PermissionNs(ModeNs(mode), family, key, None, gate, "true"),
         PermissionNs(ModeNs(mode), other, PARENTS[other][FETCH_CHILD],
                      "AccountAddressManager", PARENTS[other][PRUNE_CHILD],
                      "true"),
         PermissionNs(OtherNs(mode), family, key, "AccountAddressManager",
                      gate, "true") }

Document(kids) == [sforce_root("Profile") EXCEPT !.kids = kids]

CallInit ==
    /\ pc = "diff_elements"
    /\ parent_order \in ParentOrders
    /\ call_test_mode \in BOOLEAN
    /\ call_parent_name \in Families
    /\ \E s \in SeqsUpTo(CallElems(call_parent_name, call_test_mode),
                         MaxCallElems) :
          \E t \in SeqsUpTo(CallElems(call_parent_name, call_test_mode),
                            MaxCallElems - Len(s)) :
              /\ source_root = Document(s)
              /\ target_root = Document(t)
    /\ source_file = File("document", source_root)
    /\ target_file = File("document", target_root)
    /\ profile_path_output = NoPath
    /\ root = NoTree
    /\ names = [f \in Families |-> {}]
    /\ out_file = NoTree
    /\ writes = 0
    /\ stdout = <<>>
    /\ exit_status = -1
    /\ uncaught = ""
    /\ file_ops = <<>>
    /\ call_args = <<>>
    /\ count = 0
    /\ pruned_twice = NoTree
    /\ callbacks = <<>>
    /\ files = <<>>

call_diff_elements ==
    /\ pc = "diff_elements"
    /\ names' = [names EXCEPT ![call_parent_name] =
                    diff_elements(source_root, target_root, call_parent_name,
                                  call_test_mode)]
    /\ \E left \in {diff_elements_trees(source_root, target_root,
                                          call_parent_name, call_test_mode)} :
          source_root' = left.source /\ target_root' = left.target
    /\ pc' = "extract_elements"
    /\ UNCHANGED <<call_vars, run_vars, parent_order, source_file, target_file,
                   root>>

call_extract_elements ==
    /\ pc = "extract_elements"
    /\ \E left \in {extract_elements_trees(source_root, target_root,
                                             "Profile", parent_order,
                                             call_test_mode)} :
          /\ root' = left.root
          /\ source_root' = left.source
          /\ target_root' = left.target
    /\ pc' = "returned"
    /\ UNCHANGED <<call_vars, run_vars, parent_order, source_file, target_file,
                   names>>

CallNext == call_diff_elements \/ call_extract_elements

SpecCall == CallInit /\ [][CallNext]_vars

----------------------------------------------------------------------------
(* Library calls: prune_elements on any document, and on its own result    *)

\* How many elements the document of a prune call holds.
MaxPruneElems == 2

GateTexts ==
    {None, "", "true", "false", "None", "0", "False", "Hidden", "DefaultOff"}

\* The elements the document of a prune call on one family is made of: that
\* family's elements with every gate text, one whose gate child comes twice,
\* one that holds a disabled element of the family as its child, a disabled
\* element of another family, one of no family and one of the other
\* namespace.
PruneElems(family, mode) ==
    LET key == PARENTS[family][FETCH_CHILD]
        gate == PARENTS[family][PRUNE_CHILD]
        other == OtherFamily(family)
        granted == PermissionNs(ModeNs(mode), family, key,
                                "AccountAddressManager", gate, "true")
    IN { PermissionNs(ModeNs(mode), family, key, "AccountAddressManager",
                      gate, g) : g \in GateTexts }
       \cup
       { [granted EXCEPT !.kids =
             Append(@, Node(ModeNs(mode), gate, Text("false"), <<>>))],
         [granted EXCEPT !.kids =
             Append(@, PermissionNs(ModeNs(mode), family, key,
                                    "AccountHierarchyBuilder", gate, "false"))],
         PermissionNs(ModeNs(mode), other, PARENTS[other][FETCH_CHILD],
                      "AccountAddressManager", PARENTS[other][PRUNE_CHILD],
                      "false"),
         PermissionNs(ModeNs(mode), "userPermissions", "name", "ViewSetup",
                      "enabled", "false"),
         PermissionNs(OtherNs(mode), family, key, "AccountAddressManager",
                      gate, "false") }

PruneInit ==
    /\ pc = "prune_elements"
    /\ parent_order \in ParentOrders
    /\ call_test_mode \in BOOLEAN
    /\ call_parent_name \in Families
    /\ \E kids \in SeqsUpTo(PruneElems(call_parent_name, call_test_mode),
                            MaxPruneElems) :
          source_file = File("document", Document(kids))
    /\ profile_path_output = NoPath
    /\ target_file = Unread
    /\ source_root = NoTree
    /\ target_root = NoTree
    /\ root = NoTree
    /\ names = [f \in Families |-> {}]
    /\ out_file = NoTree
    /\ writes = 0
    /\ stdout = <<>>
    /\ exit_status = -1
    /\ uncaught = ""
    /\ file_ops = <<>>
    /\ call_args = <<>>
    /\ count = 0
    /\ pruned_twice = NoTree
    /\ callbacks = <<>>
    /\ files = <<>>

call_prune_elements ==
    /\ pc = "prune_elements"
    /\ source_root' = prune_elements(source_file.tree, parent_order,
                                     call_test_mode)
    /\ callbacks' = prune_elements_calls(source_file.tree, parent_order,
                                         call_test_mode)
    /\ pc' = "prune_elements again"
    /\ UNCHANGED <<call_test_mode, call_parent_name, call_args, count,
                   pruned_twice, files, run_vars, parent_order, source_file,
                   target_file, target_root, root, names>>

call_prune_elements_again ==
    /\ pc = "prune_elements again"
    /\ pruned_twice' = prune_elements(source_root, parent_order, call_test_mode)
    /\ callbacks' = callbacks \o prune_elements_calls(source_root, parent_order,
                                                      call_test_mode)
    /\ pc' = "pruned"
    /\ UNCHANGED <<call_test_mode, call_parent_name, call_args, count,
                   files, run_vars, parent_order, source_file, target_file,
                   source_root, target_root, root, names>>

PruneNext == call_prune_elements \/ call_prune_elements_again

SpecPrune == PruneInit /\ [][PruneNext]_vars

----------------------------------------------------------------------------
(* Library calls: the three traversals, one after the other, on any        *)
(* document                                                                *)

\* How many elements the document of the traversals holds.
MaxTraverseElems == 2

ChildTexts == {None, "", "AccountAddressManager"}

\* The elements the document is made of: the family's elements with the key
\* child and the gate child each missing, empty or filled.
TraverseElems(family, mode) ==
    { PermissionNs(ModeNs(mode), family, PARENTS[family][FETCH_CHILD], k,
                   PARENTS[family][PRUNE_CHILD], g) :
          k \in ChildTexts, g \in {None, "", "true", "false"} }

TraverseInit ==
    /\ pc = "fetch_elements"
    /\ parent_order \in ParentOrders
    /\ call_test_mode \in BOOLEAN
    /\ call_parent_name \in Families
    /\ \E kids \in SeqsUpTo(TraverseElems(call_parent_name, call_test_mode),
                            MaxTraverseElems) :
          source_root = Document(kids)
    /\ source_file = File("document", source_root)
    /\ target_file = Unread
    /\ target_root = NoTree
    /\ profile_path_output = NoPath
    /\ root = NoTree
    /\ names = [f \in Families |-> {}]
    /\ out_file = NoTree
    /\ writes = 0
    /\ stdout = <<>>
    /\ exit_status = -1
    /\ uncaught = ""
    /\ file_ops = <<>>
    /\ call_args = <<>>
    /\ count = 0
    /\ pruned_twice = NoTree
    /\ callbacks = <<>>
    /\ files = <<>>

\* names = fetch_elements(root, parent_name, test_mode)
traverse_fetch_elements ==
    /\ pc = "fetch_elements"
    /\ names' = [names EXCEPT ![call_parent_name] =
                    fetch_elements(source_root, call_parent_name,
                                   call_test_mode)]
    /\ pc' = "ExtractElements"
    /\ UNCHANGED <<call_vars, run_vars, parent_order, source_file, target_file,
                   source_root, target_root, root>>

\* ExtractElements().do(root, sforce_root('Profile'), parent_name, key, names)
traverse_ExtractElements ==
    /\ pc = "ExtractElements"
    /\ root' = do("extract", call_test_mode, source_root,
                  sforce_root("Profile"), call_parent_name,
                  PARENTS[call_parent_name][EXTRACT_CHILD],
                  names[call_parent_name])
    /\ pc' = "prune_elements"
    /\ UNCHANGED <<call_vars, run_vars, parent_order, source_file, target_file,
                   source_root, target_root, names>>

\* root = prune_elements(root, test_mode)
traverse_prune_elements ==
    /\ pc = "prune_elements"
    /\ source_root' = prune_elements(source_root, parent_order, call_test_mode)
    /\ pc' = "traversed"
    /\ UNCHANGED <<call_vars, run_vars, parent_order, source_file, target_file,
                   target_root, root, names>>

TraverseNext ==
    \/ traverse_fetch_elements
    \/ traverse_ExtractElements
    \/ traverse_prune_elements

SpecTraverse == TraverseInit /\ [][TraverseNext]_vars

----------------------------------------------------------------------------
(* Library calls in either mode: prune_elements on two documents, then     *)
(* fetch_elements, diff_elements and extract_elements, on documents whose  *)
(* elements are all in the namespace of the mode                           *)

\* How many elements the two documents hold together.
MaxModeElems == 3

\* The elements the documents are made of, all in the namespace of the mode:
\* classAccesses elements with two keys, one disabled and one without key
\* child, and a layoutAssignments element.
ModeElems(mode) ==
    { PermissionNs(ModeNs(mode), "classAccesses", "apexClass",
                   "AccountAddressManager", "enabled", "true"),
      PermissionNs(ModeNs(mode), "classAccesses", "apexClass",
                   "AccountHierarchyBuilder", "enabled", "true"),
      PermissionNs(ModeNs(mode), "classAccesses", "apexClass",
                   "AccountAddressManager", "enabled", "false"),
      PermissionNs(ModeNs(mode), "classAccesses", "apexClass", None,
                   "enabled", "true"),
      PermissionNs(ModeNs(mode), "layoutAssignments", "layout",
                   "AccountAddressManager", "recordType", None) }

ModesInit ==
    /\ pc = "prune_elements source"
    /\ parent_order \in ParentOrders
    /\ call_test_mode \in BOOLEAN
    /\ call_parent_name = None
    /\ \E s \in SeqsUpTo(ModeElems(call_test_mode), MaxModeElems) :
          \E t \in SeqsUpTo(ModeElems(call_test_mode),
                            MaxModeElems - Len(s)) :
              /\ source_root = Document(s)
              /\ target_root = Document(t)
    /\ source_file = File("document", source_root)
    /\ target_file = File("document", target_root)
    /\ profile_path_output = NoPath
    /\ root = NoTree
    /\ names = [f \in Families |-> {}]
    /\ out_file = NoTree
    /\ writes = 0
    /\ stdout = <<>>
    /\ exit_status = -1
    /\ uncaught = ""
    /\ file_ops = <<>>
    /\ call_args = <<>>
    /\ count = 0
    /\ pruned_twice = NoTree
    /\ callbacks = <<>>
    /\ files = <<>>

\* source = prune_elements(source, test_mode)
modes_prune_source ==
    /\ pc = "prune_elements source"
    /\ source_root' = prune_elements(source_root, parent_order, call_test_mode)
    /\ callbacks' = callbacks \o prune_elements_calls(source_root, parent_order,
                                                      call_test_mode)
    /\ pc' = "prune_elements target"
    /\ UNCHANGED <<call_test_mode, call_parent_name, call_args, count,
                   pruned_twice, files, run_vars, parent_order, source_file,
                   target_file, target_root, root, names>>

\* target = prune_elements(target, test_mode)
modes_prune_target ==
    /\ pc = "prune_elements target"
    /\ target_root' = prune_elements(target_root, parent_order, call_test_mode)
    /\ callbacks' = callbacks \o prune_elements_calls(target_root, parent_order,
                                                      call_test_mode)
    /\ pc' = "fetch_elements"
    /\ UNCHANGED <<call_test_mode, call_parent_name, call_args, count,
                   pruned_twice, files, run_vars, parent_order, source_file,
                   target_file, source_root, root, names>>

\* names = fetch_elements(target, parent_name, test_mode), family by family
modes_fetch_elements ==
    /\ pc = "fetch_elements"
    /\ names' = [f \in Families |->
                    fetch_elements(target_root, f, call_test_mode)]
    /\ pc' = "diff_elements"
    /\ UNCHANGED <<call_vars, run_vars, parent_order, source_file, target_file,
                   source_root, target_root, root>>

\* names = diff_elements(source, target, parent_name, test_mode), family by
\* family
modes_diff_elements ==
    /\ pc = "diff_elements"
    /\ names' = [f \in Families |->
                    diff_elements(source_root, target_root, f, call_test_mode)]
    /\ pc' = "extract_elements"
    /\ UNCHANGED <<call_vars, run_vars, parent_order, source_file, target_file,
                   source_root, target_root, root>>

\* root = extract_elements(source, target, 'Profile', test_mode)
modes_extract_elements ==
    /\ pc = "extract_elements"
    /\ \E left \in {extract_elements_trees(source_root, target_root,
                                             "Profile", parent_order,
                                             call_test_mode)} :
          /\ root' = left.root
          /\ source_root' = left.source
          /\ target_root' = left.target
    /\ pc' = "returned"
    /\ UNCHANGED <<call_vars, run_vars, parent_order, source_file, target_file,
                   names>>

ModesNext ==
    \/ modes_prune_source
    \/ modes_prune_target
    \/ modes_fetch_elements
    \/ modes_diff_elements
    \/ modes_extract_elements

SpecModes == ModesInit /\ [][ModesNext]_vars

----------------------------------------------------------------------------
(* version_forward.py: conform_node, modify_version and, for one file,     *)
(* conform_metadata                                                        *)

\* A slip: the flag is raised whether or not the text differs.
conform_node_always(modified, element, node_text, parent, ns, test_mode) ==
    LET my_element == namespace_prepend(element, test_mode)
        node == Find(parent, my_element, ns)
    IN IF node = 0
       THEN [modified |-> modified, parent |-> parent, raised |-> TRUE]
       ELSE [modified |-> TRUE,
             parent   |-> [parent EXCEPT !.kids[node].text = Text(node_text)],
             raised   |-> FALSE]

\* The flag conform_node returns and the parent as it leaves it; raised when
\* find gives None, whose text cannot be read.
conform_node(modified, element, node_text, parent, ns, test_mode) ==
    LET my_element == namespace_prepend(element, test_mode)
        node == Find(parent, my_element, ns)
    IN IF node = 0
       THEN [modified |-> modified, parent |-> parent, raised |-> TRUE]
       ELSE IF parent.kids[node].text # Text(node_text)
            THEN [modified |-> TRUE,
                  parent   |-> [parent EXCEPT
                                   !.kids[node].text = Text(node_text)],
                  raised   |-> FALSE]
            ELSE [modified |-> modified, parent |-> parent, raised |-> FALSE]

\* The two loops of modify_version: the tree as they leave it and the flag.
modify_version_trees(root_, prefix, major_number, minor_number, test_mode) ==
    LET ns == namespace_declare(test_mode)
        packageVersions == namespace_prepend("packageVersions", test_mode)
        pv == FindAll(root_, packageVersions, ns)
        RECURSIVE Children(_, _)
        Children(st, j) ==
            IF j > Len(st.parent.kids) \/ st.raised THEN st
            ELSE IF st.parent.kids[j].text = Text(prefix)
                 THEN LET major == conform_node(st.modified, "majorNumber",
                                                major_number, st.parent, ns,
                                                test_mode)
                          minor == IF major.raised THEN major
                                   ELSE conform_node(major.modified,
                                                     "minorNumber",
                                                     minor_number,
                                                     major.parent, ns,
                                                     test_mode)
                      IN Children(minor, j + 1)
                 ELSE Children(st, j + 1)
        RECURSIVE Parents(_, _)
        Parents(t, k) ==
            IF k > Len(pv) \/ t.raised THEN t
            ELSE LET st == Children([modified |-> t.modified,
                                     parent   |-> t.root.kids[pv[k]],
                                     raised   |-> FALSE], 1)
                 IN Parents([root     |-> [t.root EXCEPT
                                              !.kids[pv[k]] = st.parent],
                             modified |-> st.modified,
                             raised   |-> st.raised], k + 1)
    IN Parents([root |-> root_, modified |-> FALSE, raised |-> FALSE], 1)

\* What modify_version returns: root if modified else None.
modify_version(root_, prefix, major_number, minor_number, test_mode) ==
    LET t == modify_version_trees(root_, prefix, major_number, minor_number,
                                  test_mode)
    IN IF t.modified THEN t.root ELSE NoTree

\* How many elements the document of a modify_version call holds.
MaxVersionElems == 2

package_versions(ns, major_number, minor_number, namespace) ==
    Node(ns, "packageVersions", NoText,
         <<Node(ns, "majorNumber", Text(major_number), <<>>),
           Node(ns, "minorNumber", Text(minor_number), <<>>),
           Node(ns, "namespace", Text(namespace), <<>>)>>)

\* The elements the document is made of: packageVersions of two packages at
\* several versions, one of the other namespace, one nested in another
\* element, and two elements that are no packageVersions.
VersionElems(mode) ==
    { package_versions(ModeNs(mode), "1", "2", "Example"),
      package_versions(ModeNs(mode), "3", "2", "Example"),
      package_versions(ModeNs(mode), "3", "4", "Example"),
      package_versions(ModeNs(mode), "1", "2", "Other"),
      package_versions(OtherNs(mode), "1", "2", "Example"),
      Node(ModeNs(mode), "wrapper", NoText,
           <<package_versions(ModeNs(mode), "1", "2", "Example")>>),
      Node(ModeNs(mode), "apiVerson", Text("12.0"), <<>>),
      Node(ModeNs(mode), "status", Text("Example"), <<>>) }

\* The prefix, and the version get_version read for it.
VersionArgs ==
    { [prefix |-> p, major_number |-> "3", minor_number |-> "4"] :
          p \in {"Example", "1"} }

VersionInit ==
    /\ pc = "modify_version"
    /\ parent_order = DeclaredOrder
    /\ call_test_mode \in BOOLEAN
    /\ call_parent_name = None
    /\ call_args \in VersionArgs
    /\ \E kids \in SeqsUpTo(VersionElems(call_test_mode), MaxVersionElems) :
          source_root = [sforce_root("ApexClass") EXCEPT !.kids = kids]
    /\ source_file = File("document", source_root)
    /\ target_file = Unread
    /\ target_root = NoTree
    /\ profile_path_output = NoPath
    /\ root = NoTree
    /\ names = [f \in Families |-> {}]
    /\ out_file = NoTree
    /\ writes = 0
    /\ stdout = <<>>
    /\ exit_status = -1
    /\ uncaught = ""
    /\ file_ops = <<>>
    /\ count = 0
    /\ pruned_twice = NoTree
    /\ callbacks = <<>>
    /\ files = <<>>

\* root = modify_version(tree.getroot(), prefix, major_number, minor_number)
version_modify_version ==
    /\ pc = "modify_version"
    /\ \E t \in {modify_version_trees(source_root, call_args.prefix,
                                       call_args.major_number,
                                       call_args.minor_number,
                                       call_test_mode)} :
          /\ source_root' = t.root
          /\ IF t.raised
             THEN Raise("AttributeError") /\ UNCHANGED root
             ELSE /\ root' = modify_version(source_root, call_args.prefix,
                                            call_args.major_number,
                                            call_args.minor_number,
                                            call_test_mode)
                  /\ pc' = "returned"
                  /\ UNCHANGED <<exit_status, uncaught>>
    /\ UNCHANGED <<call_vars, parent_order, profile_path_output, source_file,
                   target_file, target_root, names, out_file, writes, stdout,
                   file_ops>>

\* conform_metadata, after its call of modify_version (which it makes with
\* test_mode left False): the file is written back and counted.
version_conform_metadata ==
    /\ pc = "returned"
    /\ call_args \in VersionArgs
    /\ ~call_test_mode
    /\ IF root # NoTree
       THEN /\ out_file' = tostring(root)
            /\ writes' = writes + 1
            /\ count' = count + 1
       ELSE UNCHANGED <<out_file, writes, count>>
    /\ pc' = "counted"
    /\ UNCHANGED <<call_test_mode, call_parent_name, call_args, pruned_twice,
                   callbacks, files, parent_order, profile_path_output,
                   source_file,
                   target_file, source_root, target_root, root, names, stdout,
                   exit_status, uncaught, file_ops>>

VersionNext == version_modify_version \/ version_conform_metadata

SpecVersion == VersionInit /\ [][VersionNext]_vars

----------------------------------------------------------------------------
(* version_forward.py: update_package_version for one prefix, over the     *)
(* source directories main hands it.  The text of versionNumber is a       *)
(* sequence of characters; the whitespace between elements is left out of  *)
(* the documents, so there is nothing for strip() to take off.             *)

\* An InstalledPackage document, as example_installed_package builds it.
installed_package(version_number) ==
    Node(SFORCE_URI, "InstalledPackage", NoText,
         <<Node(SFORCE_URI, "versionNumber", Text(version_number), <<>>)>>)

\* root.xpath('string()'): the text of the document, in document order.
RECURSIVE string(_)
string(node) ==
    LET RECURSIVE Kids(_)
        Kids(i) == IF i > Len(node.kids) THEN <<>>
                   ELSE string(node.kids[i]) \o Kids(i + 1)
    IN (IF node.text = NoText THEN <<>> ELSE node.text[1]) \o Kids(1)

\* vn.split(sep)
split(vn, sep) ==
    LET RECURSIVE From(_, _)
        From(i, word) ==
            IF i > Len(vn) THEN <<word>>
            ELSE IF vn[i] = sep THEN <<word>> \o From(i + 1, <<>>)
                 ELSE From(i + 1, Append(word, vn[i]))
    IN From(1, <<>>)

\* The numbers get_version returns.  A number of one digit is that digit as
\* a string, which is how the metadata files of the model hold it.
get_version(root_) ==
    LET parts == split(string(root_), ".")
    IN [major_number |-> parts[1][1], minor_number |-> parts[2][1]]

\* conform_metadata over the files of one source directory: the count it
\* returns and the files as write_metadata leaves them.
conform_metadata(prefix, sourcedir, major_number, minor_number) ==
    LET RECURSIVE Loop(_, _)
        Loop(st, k) ==
            IF k > Len(sourcedir) THEN st
            ELSE LET root_ == modify_version(sourcedir[k], prefix,
                                             major_number, minor_number,
                                             FALSE)
                 IN IF root_ # NoTree
                    THEN Loop([count |-> st.count + 1,
                               files |-> [st.files EXCEPT
                                             ![k] = tostring(root_)]], k + 1)
                    ELSE Loop(st, k + 1)
    IN Loop([count |-> 0, files |-> sourcedir], 1)

\* The source directories main passes, under homedir.
sourcedirs ==
    <<"src/classes", "src/components", "src/pages", "src/triggers",
      "src/email">>

\* How many metadata files a source directory holds.
MaxDirFiles == 1

\* The metadata files: a class at a prior version of the package and one at
\* the installed version.
MetadataFiles ==
    { [sforce_root("ApexClass") EXCEPT !.kids =
          <<package_versions(SFORCE_URI, "1", "2", "Example")>>],
      [sforce_root("ApexClass") EXCEPT !.kids =
          <<package_versions(SFORCE_URI, "3", "4", "Example")>>] }

\* The two messages update_package_version returns, which main prints.
NotInstalled(prefix) == [prefix |-> prefix, text |-> "is not installed"]

SetFiles(count_, prefix, major_number, minor_number) ==
    [count |-> count_, prefix |-> prefix, majorNumber |-> major_number,
     minorNumber |-> minor_number]

UpdateInit ==
    /\ pc = "update_package_version"
    /\ parent_order = DeclaredOrder
    /\ call_test_mode = FALSE
    /\ call_parent_name = None
    /\ call_args = [prefix |-> "Example", major_number |-> None,
                    minor_number |-> None]
    /\ source_file \in
          {File("missing", NoTree),
           File("document", installed_package(<<"3", ".", "4", ".", "0">>))}
    /\ files \in [{sourcedirs[i] : i \in 1..Len(sourcedirs)} ->
                    SeqsUpTo(MetadataFiles, MaxDirFiles)]
    /\ target_file = Unread
    /\ source_root = NoTree
    /\ target_root = NoTree
    /\ profile_path_output = NoPath
    /\ root = NoTree
    /\ names = [f \in Families |-> {}]
    /\ out_file = NoTree
    /\ writes = 0
    /\ stdout = <<>>
    /\ exit_status = -1
    /\ uncaught = ""
    /\ file_ops = <<>>
    /\ count = 0
    /\ pruned_twice = NoTree
    /\ callbacks = <<>>

\* Lines 220-226: the installed package is parsed and its version read.
update_get_version ==
    /\ pc = "update_package_version"
    /\ IF source_file.found = "missing"
       THEN /\ stdout' = Append(stdout, NotInstalled(call_args.prefix))
            /\ pc' = "returned"
            /\ UNCHANGED <<call_args, source_root>>
       ELSE /\ source_root' = source_file.tree
            /\ \E version \in {get_version(source_file.tree)} :
                  call_args' = [call_args EXCEPT
                                   !.major_number = version.major_number,
                                   !.minor_number = version.minor_number]
            /\ pc' = sourcedirs[1]
            /\ UNCHANGED stdout
    /\ UNCHANGED <<call_test_mode, call_parent_name, count, pruned_twice,
                   callbacks, files, parent_order, profile_path_output,
                   source_file, target_file, target_root, root, names,
                   out_file, writes, exit_status, uncaught, file_ops>>

\* Lines 228-229, one round of the loop: count = conform_metadata(...)
update_conform_metadata ==
    /\ \E i \in 1..Len(sourcedirs) :
          /\ pc = sourcedirs[i]
          /\ \E done \in {conform_metadata(call_args.prefix, files[pc],
                                            call_args.major_number,
                                            call_args.minor_number)} :
                /\ count' = done.count
                /\ files' = [files EXCEPT ![pc] = done.files]
                /\ writes' = writes + done.count
          /\ pc' = IF i < Len(sourcedirs) THEN sourcedirs[i + 1] ELSE "return"
    /\ UNCHANGED <<call_test_mode, call_parent_name, call_args, pruned_twice,
                   callbacks, parent_order, profile_path_output, source_file,
                   target_file, source_root, target_root, root, names,
                   out_file, stdout, exit_status, uncaught, file_ops>>

\* Lines 231-234: the message, which main prints.
update_return ==
    /\ pc = "return"
    /\ stdout' = Append(stdout, SetFiles(count, call_args.prefix,
                                         call_args.major_number,
                                         call_args.minor_number))
    /\ pc' = "returned"
    /\ UNCHANGED <<call_vars, parent_order, profile_path_output, source_file,
                   target_file, source_root, target_root, root, names,
                   out_file, writes, exit_status, uncaught, file_ops>>

UpdateNext ==
    \/ update_get_version
    \/ update_conform_metadata
    \/ update_return

SpecUpdate == UpdateInit /\ [][UpdateNext]_vars

----------------------------------------------------------------------------
(* fieldsets_extend.py: modify_field_sets, with the element builders of    *)
(* tools_lxml.py                                                           *)

TEST_LIST == <<"AccountNumber", "AccountSource", "AnnualRevenue">>

sub_element_text(my_parent, my_tag, my_text) ==
    LET made == SubElement(my_parent, my_tag)
    IN [made EXCEPT !.kids[Len(made.kids)].text = Text(my_text)]

\* The fieldSets element field_sets_element appends to root, by itself.
field_sets_element(full_name, description, field, is_field_managed, is_required) ==
    LET displayed_fields ==
            sub_element_text(
                sub_element_text(
                    sub_element_text(Node("", "displayedFields", NoText, <<>>),
                                     "field", field),
                    "isFieldManaged", is_field_managed),
                "isRequired", is_required)
        field_sets ==
            sub_element_text(
                sub_element_text(Node("", "fieldSets", NoText, <<>>),
                                 "fullName", full_name),
                "description", description)
    IN [field_sets EXCEPT !.kids = Append(@, displayed_fields)]

\* element.findtext(path, ns): None without a match, '' for a match that
\* has no text.
findtext(element, match, ns) ==
    LET c == Find(element, match, ns)
    IN IF c = 0 THEN None
       ELSE IF element.kids[c].text = NoText THEN ""
            ELSE element.kids[c].text[1]

\* Lines 173-180: the names one fieldSets element displays.
displayed_list(field_set, test_mode) ==
    LET ns == namespace_declare(test_mode)
        displayed_fields ==
            FindAll(field_set, namespace_prepend("displayedFields", test_mode),
                    ns)
    IN [k \in 1..Len(displayed_fields) |->
           findtext(field_set.kids[displayed_fields[k]],
                    namespace_prepend("field", test_mode), ns)]

\* A slip: every master field is taken, displayed or not.
add_available_all(field_set, fields, test_mode) == fields

\* Lines 182-184: the master fields the fieldSets element does not display.
add_available(field_set, fields, test_mode) ==
    LET displayed == displayed_list(field_set, test_mode)
        Missing(field) ==
            field \notin {displayed[k] : k \in 1..Len(displayed)}
    IN SelectSeq(fields, Missing)

\* Lines 188-192: one availableFields entry appended to a fieldSets element.
available_fields(field_set, add_field) ==
    LET parent ==
            sub_element_text(
                sub_element_text(
                    sub_element_text(Node("", "availableFields", NoText, <<>>),
                                     "field", add_field),
                    "isFieldManaged", "false"),
                "isRequired", "false")
    IN [field_set EXCEPT !.kids = Append(@, parent)]

\* The loop of modify_field_sets: the tree as it leaves it and the flag.
modify_field_sets_trees(root_, fields, test_mode) ==
    LET ns == namespace_declare(test_mode)
        field_sets == FindAll(root_, namespace_prepend("fieldSets", test_mode),
                              ns)
        RECURSIVE Entries(_, _, _)
        Entries(field_set, adding, j) ==
            IF j > Len(adding) THEN field_set
            ELSE Entries(available_fields(field_set, adding[j]), adding, j + 1)
        RECURSIVE Sets(_, _)
        Sets(t, k) ==
            IF k > Len(field_sets) THEN t
            ELSE LET field_set == t.root.kids[field_sets[k]]
                     adding == add_available(field_set, fields, test_mode)
                 IN Sets([root     |-> [t.root EXCEPT !.kids[field_sets[k]] =
                                           Entries(field_set, adding, 1)],
                          modified |-> t.modified \/ Len(adding) > 0],
                         k + 1)
    IN Sets([root |-> root_, modified |-> FALSE], 1)

\* What modify_field_sets returns.
modify_field_sets(root_, fields, test_mode) ==
    LET t == modify_field_sets_trees(root_, fields, test_mode)
    IN IF t.modified THEN t.root ELSE sforce_root("CustomObject")

\* How many elements the document of a modify_field_sets call holds.
MaxFieldSetElems == 2

\* node and everything under it, put in the namespace ns.
RECURSIVE InNamespace(_, _)
InNamespace(node, ns) ==
    Node(ns, node.tag, node.text,
         [i \in 1..Len(node.kids) |-> InNamespace(node.kids[i], ns)])

\* The elements the document is made of: the two fieldSets of the example,
\* one that displays every field of TEST_LIST, one that displays none, one
\* whose displayedFields has no field, one that has an availableFields
\* entry, one of the other namespace and a listViews element.
FieldSetElems(mode) ==
    LET first == field_sets_element("CompanySearchResults",
                                    "Create Company Account", "AccountNumber",
                                    "false", "false")
        second == field_sets_element("CompanyMatchingAccounts",
                                     "Company Search Result card",
                                     "AnnualRevenue", "false", "false")
        all == [first EXCEPT !.kids =
                   @ \o << [@[3] EXCEPT !.kids[1].text = Text("AccountSource")],
                           [@[3] EXCEPT !.kids[1].text = Text("AnnualRevenue")] >>]
        bare == [first EXCEPT !.kids = SubSeq(@, 1, 2)]
        unnamed == [first EXCEPT !.kids[3].kids = Tail(@)]
        extended == available_fields(first, "AccountSource")
        list_views == sub_element_text(Node("", "listViews", NoText, <<>>),
                                       "fullName", "AllAccounts")
    IN { InNamespace(e, ModeNs(mode)) :
            e \in {first, second, all, bare, unnamed, extended, list_views} }
       \cup {InNamespace(first, OtherNs(mode))}

FieldLists == {TEST_LIST, <<"AnnualRevenue", "AccountNumber">>}

FieldSetsInit ==
    /\ pc = "modify_field_sets"
    /\ parent_order = DeclaredOrder
    /\ call_test_mode \in BOOLEAN
    /\ call_parent_name = None
    /\ call_args \in {[fields |-> fields] : fields \in FieldLists}
    /\ \E kids \in SeqsUpTo(FieldSetElems(call_test_mode), MaxFieldSetElems) :
          source_root = [sforce_root("CustomObject") EXCEPT !.kids = kids]
    /\ source_file = File("document", source_root)
    /\ target_file = Unread
    /\ target_root = NoTree
    /\ profile_path_output = NoPath
    /\ root = NoTree
    /\ names = [f \in Families |-> {}]
    /\ out_file = NoTree
    /\ writes = 0
    /\ stdout = <<>>
    /\ exit_status = -1
    /\ uncaught = ""
    /\ file_ops = <<>>
    /\ count = 0
    /\ pruned_twice = NoTree
    /\ callbacks = <<>>
    /\ files = <<>>

\* root = modify_field_sets(root, fields, test_mode)
fieldsets_modify_field_sets ==
    /\ pc = "modify_field_sets"
    /\ \E t \in {modify_field_sets_trees(source_root, call_args.fields,
                                          call_test_mode)} :
          source_root' = t.root
    /\ root' = modify_field_sets(source_root, call_args.fields, call_test_mode)
    /\ pc' = "modified"
    /\ UNCHANGED <<call_vars, run_vars, parent_order, source_file, target_file,
                   target_root, names>>

\* Lines 214-218 of main, which calls modify_field_sets with test_mode left
\* False: what came back is saved over the file, unless it is None.
fieldsets_save_tree ==
    /\ pc = "modified"
    /\ ~call_test_mode
    /\ IF root # NoTree
       THEN /\ out_file' = tostring(root)
            /\ writes' = writes + 1
            /\ pc' = "saved"
            /\ UNCHANGED <<stdout, exit_status>>
       ELSE /\ stdout' = Append(stdout,
                                "The Account file is not a valid XML document.")
            /\ pc' = "exited"
            /\ exit_status' = 0
            /\ UNCHANGED <<out_file, writes>>
    /\ UNCHANGED <<call_vars, parent_order, profile_path_output, source_file,
                   target_file, source_root, target_root, root, names,
                   uncaught, file_ops>>

FieldSetsNext == fieldsets_modify_field_sets \/ fieldsets_save_tree

SpecFieldSets == FieldSetsInit /\ [][FieldSetsNext]_vars

----------------------------------------------------------------------------
(* listviews_remove.py: strip_listviews and, for one component, the        *)
(* save_tree of do_component                                               *)

\* A slip: find is used for findall, so one element goes.
strip_listviews_first(root_, test_mode) ==
    LET ns == namespace_declare(test_mode)
        list_views_match == namespace_prepend("listViews", test_mode)
        list_view == Find(root_, list_views_match, ns)
    IN Detach(root_, {list_view})

strip_listviews(root_, test_mode) ==
    LET ns == namespace_declare(test_mode)
        list_views_match == namespace_prepend("listViews", test_mode)
        list_views == FindAll(root_, list_views_match, ns)
    IN Detach(root_, {list_views[k] : k \in 1..Len(list_views)})

\* The listViews element list_views_element appends to root, by itself.
list_views_element(full_name, columns, filter_scope, label_) ==
    sub_element_text(
        sub_element_text(
            sub_element_text(
                sub_element_text(Node("", "listViews", NoText, <<>>),
                                 "fullName", full_name),
                "columns", columns),
            "filterScope", filter_scope),
        "label", label_)

\* How many elements the document of a strip_listviews call holds.
MaxListViewElems == 3

\* The elements the document is made of: the two listViews and a fieldSets
\* of the example, a listViews of the other namespace, and a fieldSets that
\* holds a listViews as its child.
ListViewElems(mode) ==
    LET all_accounts == list_views_element("AllAccounts", "ACCOUNT.NAME",
                                           "Everything", "All Accounts")
        new_this_week == list_views_element("NewThisWeek", "ACCOUNT.NAME",
                                            "Everything", "New This Week")
        field_sets == field_sets_element("CompanySearchResults",
                                         "Create Company Account",
                                         "AccountNumber", "false", "false")
        nesting == [field_sets EXCEPT !.kids = Append(@, all_accounts)]
    IN { InNamespace(e, ModeNs(mode)) :
            e \in {all_accounts, new_this_week, field_sets, nesting} }
       \cup {InNamespace(all_accounts, OtherNs(mode))}

ListViewsInit ==
    /\ pc = "strip_listviews"
    /\ parent_order = DeclaredOrder
    /\ call_test_mode \in BOOLEAN
    /\ call_parent_name = None
    /\ call_args = <<>>
    /\ \E kids \in SeqsUpTo(ListViewElems(call_test_mode), MaxListViewElems) :
          source_root = [sforce_root("CustomObject") EXCEPT !.kids = kids]
    /\ source_file = File("document", source_root)
    /\ target_file = Unread
    /\ target_root = NoTree
    /\ profile_path_output = NoPath
    /\ root = NoTree
    /\ names = [f \in Families |-> {}]
    /\ out_file = NoTree
    /\ writes = 0
    /\ stdout = <<>>
    /\ exit_status = -1
    /\ uncaught = ""
    /\ file_ops = <<>>
    /\ count = 0
    /\ pruned_twice = NoTree
    /\ callbacks = <<>>
    /\ files = <<>>

\* root = strip_listviews(root, test_mode): the tree handed in, changed in
\* place, is what comes back.
listviews_strip_listviews ==
    /\ pc = "strip_listviews"
    /\ source_root' = strip_listviews(source_root, call_test_mode)
    /\ root' = strip_listviews(source_root, call_test_mode)
    /\ pc' = "stripped"
    /\ UNCHANGED <<call_vars, run_vars, parent_order, source_file, target_file,
                   target_root, names>>

\* do_component, after its call of strip_listviews (which it makes with
\* test_mode left False): save_tree(root, filename).
listviews_save_tree ==
    /\ pc = "stripped"
    /\ ~call_test_mode
    /\ out_file' = tostring(root)
    /\ writes' = writes + 1
    /\ pc' = "saved"
    /\ UNCHANGED <<call_vars, parent_order, profile_path_output, source_file,
                   target_file, source_root, target_root, root, names, stdout,
                   exit_status, uncaught, file_ops>>

ListViewsNext == listviews_strip_listviews \/ listviews_save_tree

SpecListViews == ListViewsInit /\ [][ListViewsNext]_vars

----------------------------------------------------------------------------
(* Vocabulary of the properties, stated on the documents themselves        *)

IsFamilyElement(node, mode) == node.ns = ModeNs(mode) /\ node.tag \in Families

InFamily(node, family, mode) == node.ns = ModeNs(mode) /\ node.tag = family

\* The text of the first child of node with the given name, NoText when no
\* child has that name.
ChildText(node, name, mode) ==
    LET at == {i \in 1..Len(node.kids) :
                  node.kids[i].ns = ModeNs(mode) /\ node.kids[i].tag = name}
    IN IF at = {} THEN NoText
       ELSE node.kids[CHOOSE i \in at : \A j \in at : i <= j].text

KeyOf(node, mode) == ChildText(node, PARENTS[node.tag][1], mode)
GateOf(node, mode) == ChildText(node, PARENTS[node.tag][2], mode)

\* The element grants access: its gate text is neither "false" nor "None".
Grants(node, mode) == GateOf(node, mode) \notin {Text("false"), Text("None")}

\* The elements of one family directly under the root, in document order.
FamilyKids(tree, family, mode) ==
    LET Is(node) == InFamily(node, family, mode)
    IN SelectSeq(tree.kids, Is)

Range(s) == {s[i] : i \in 1..Len(s)}

\* The key texts of one family in a document.
KeySet(tree, family, mode) ==
    {KeyOf(n, mode)[1] :
        n \in {m \in Range(FamilyKids(tree, family, mode)) :
                  KeyOf(m, mode) # NoText}}

\* The label main gives a permission set.
LabelElement(ns) == Node(ns, "label", Text("Community Hub Guest"), <<>>)

Labels(tree) == LET Is(node) == node.tag = "label" IN SelectSeq(tree.kids, Is)

EndsWith(path, suffix) ==
    /\ Len(path) >= Len(suffix)
    /\ SubSeq(path, Len(path) - Len(suffix) + 1, Len(path)) = suffix

\* main has passed extract_elements (and the label).
Extracted == pc \in {"label", "save_tree", "done"}
Labelled == pc \in {"save_tree", "done"}

----------------------------------------------------------------------------
(* C2: the top-level flow (prune source, prune target, extract_elements)   *)
(* yields, family by family, exactly the copies of the keyed target        *)
(* elements that grant access and whose key is not the key of an           *)
(* access-granting source element of that family, and nothing else.        *)

GrantedDelta(family) ==
    LET src == Range(FamilyKids(source_file.tree, family, FALSE))
        Keep(n) ==
            /\ InFamily(n, family, FALSE)
            /\ Grants(n, FALSE)
            /\ KeyOf(n, FALSE) # NoText
            /\ \A m \in src :
                  ~(Grants(m, FALSE) /\ KeyOf(m, FALSE) = KeyOf(n, FALSE))
    IN SelectSeq(target_file.tree.kids, Keep)

\* C2: the output's family elements are exactly the granted target elements
\* whose key no granting source element of the family has.
C2_FlowYieldsGrantedDelta ==
    /\ Extracted =>
          \A f \in Families : FamilyKids(root, f, FALSE) = GrantedDelta(f)
    /\ pc = "label" =>
          \A i \in 1..Len(root.kids) :
              \E f \in Families : InFamily(root.kids[i], f, FALSE)
    /\ pc = "done" =>
          \A f \in Families : FamilyKids(out_file, f, FALSE) = GrantedDelta(f)

C2_Witness ==
    /\ pc = "done"
    /\ source_file.tree = tostring(example_profile_metadata_source)
    /\ target_file.tree = tostring(example_profile_metadata_target)
    /\ FamilyKids(out_file, "classAccesses", FALSE) =
          <<Permission("classAccesses", "apexClass", "AccountHierarchyBuilder",
                       "enabled", "true")>>

----------------------------------------------------------------------------
(* C6: when the pruned source and the pruned target hold the same          *)
(* elements in every family, the output is the bare root, plus the one     *)
(* label element when the root is a PermissionSet.                         *)

SameGranted ==
    \A f \in Families :
        Range(FamilyKids(source_root, f, FALSE)) =
            Range(FamilyKids(target_root, f, FALSE))

\* C6: equal pruned documents give the bare root, plus the label of a
\* permission set.
C6_EmptyDelta ==
    /\ (pc = "label" /\ SameGranted) => root.kids = <<>>
    /\ (Labelled /\ SameGranted) =>
          root.kids = IF root.tag = "PermissionSet"
                      THEN <<LabelElement("")>> ELSE <<>>
    /\ (pc = "done" /\ SameGranted) =>
          out_file.kids = IF out_file.tag = "PermissionSet"
                          THEN <<LabelElement(SFORCE_URI)>> ELSE <<>>

C6_Witness ==
    /\ pc = "done"
    /\ SameGranted
    /\ FamilyKids(target_root, "classAccesses", FALSE) # <<>>
    /\ FamilyKids(target_file.tree, "classAccesses", FALSE)
          # FamilyKids(source_file.tree, "classAccesses", FALSE)
    /\ out_file = Node(SFORCE_URI, "PermissionSet", NoText,
                       <<LabelElement(SFORCE_URI)>>)

----------------------------------------------------------------------------
(* C7: an output path ending in .profile gives the root Profile and no     *)
(* label; one ending in .permissionset, or without .profile, gives the     *)
(* root PermissionSet and exactly one label "Community Hub Guest".         *)

\* C7: the root and the label follow the extension of the output path.
C7_RootFollowsExtension ==
    Labelled =>
        /\ EndsWith(profile_path_output, DotProfile) =>
              root.tag = "Profile" /\ Labels(root) = <<>>
        /\ (EndsWith(profile_path_output, DotPermissionSet)
              \/ ~Contains(profile_path_output, DotProfile)) =>
              root.tag = "PermissionSet"
                  /\ Labels(root) = <<LabelElement("")>>

----------------------------------------------------------------------------
(* C10: when the source or the target path holds no readable file, the     *)
(* run prints that path, ends with a nonzero status and leaves the output  *)
(* file as it was.                                                         *)

\* C10: a missing input is reported, ends the run with a nonzero status and
\* leaves the output file alone.
C10_InputNotFound ==
    /\ source_file.found = "missing" =>
          /\ pc = "exited"
          /\ stdout = <<NotAvailable(profile_path_source)>>
          /\ exit_status \notin {-1, 0}
          /\ writes = 0 /\ out_file = NoTree
    /\ target_file.found = "missing" =>
          /\ pc = "exited"
          /\ stdout = <<NotAvailable(profile_path_target)>>
          /\ exit_status \notin {-1, 0}
          /\ writes = 0 /\ out_file = NoTree

C10_Witness ==
    /\ source_file.found = "document"
    /\ Len(source_file.tree.kids) > 0
    /\ target_file.found = "missing"
    /\ pc = "exited"

----------------------------------------------------------------------------
(* C1: for each of the eight families and any two documents,               *)
(* diff_elements returns the key texts fetched from target that are not    *)
(* fetched from source, whether or not target holds every source key.      *)

DiffReturned == pc \in {"extract_elements", "returned"}

\* C1: diff_elements returns the target's key set minus the source's key set.
C1_DiffIsSetDifference ==
    DiffReturned =>
        names[call_parent_name] =
            KeySet(target_root, call_parent_name, call_test_mode)
                \ KeySet(source_root, call_parent_name, call_test_mode)

\* The call has returned for a target that is no superset of the source.
C1_Witness ==
    /\ DiffReturned
    /\ call_parent_name = "layoutAssignments"
    /\ KeySet(source_root, call_parent_name, call_test_mode)
          \ KeySet(target_root, call_parent_name, call_test_mode) # {}
    /\ names[call_parent_name] = {"AccountHierarchyBuilder"}

----------------------------------------------------------------------------
(* C3: for every family and every name of its delta set, the output of     *)
(* extract_elements holds exactly one element of that family with that     *)
(* key, and it is a copy of a target element.                              *)

KeyedKids(tree, family, mode, key) ==
    LET Is(node) == InFamily(node, family, mode) /\ KeyOf(node, mode) = Text(key)
    IN SelectSeq(tree.kids, Is)

\* C3: exactly one output element, a copy of a target element, per delta name.
C3_ExtractCompleteness ==
    pc = "returned" =>
        \A f \in Families :
            \A k \in KeySet(target_root, f, call_test_mode)
                        \ KeySet(source_root, f, call_test_mode) :
                /\ Len(KeyedKids(root, f, call_test_mode, k)) = 1
                /\ KeyedKids(root, f, call_test_mode, k)[1]
                      \in Range(target_root.kids)

----------------------------------------------------------------------------
(* C4: no element of the output of extract_elements has a key that is in   *)
(* the name set fetched from the source document for its family.           *)

\* C4: no output element is keyed by a name fetched from the source.
C4_ExtractExclusivity ==
    pc = "returned" =>
        \A f \in Families :
            \A n \in Range(FamilyKids(root, f, call_test_mode)) :
                \A k \in KeySet(source_root, f, call_test_mode) :
                    KeyOf(n, call_test_mode) # Text(k)

\* Something was extracted while a target element was held back for its key.
C4_Witness ==
    /\ pc = "returned"
    /\ root.kids # <<>>
    /\ KeySet(source_root, call_parent_name, call_test_mode)
          \cap KeySet(target_root, call_parent_name, call_test_mode) # {}

----------------------------------------------------------------------------
(* C5: pruning a pruned document removes nothing: prune_elements returns   *)
(* its own result unchanged.                                               *)

\* C5: a second prune_elements changes nothing.
C5_PruneIdempotent == pc = "pruned" => pruned_twice = source_root

\* The first call removed one element and kept one.
C5_Witness ==
    /\ pc = "pruned"
    /\ Len(source_file.tree.kids) = 2
    /\ Len(source_root.kids) = 1

----------------------------------------------------------------------------
(* C8: prune_elements detaches a direct family element exactly when the    *)
(* text of its gate child is "false" or "None"; every other element stays. *)

Pruned == pc \in {"prune_elements again", "pruned"}

Disqualified(node, mode) ==
    IsFamilyElement(node, mode) /\ ~Grants(node, mode)

\* C8: prune_elements detaches exactly the family elements gated "false" or
\* "None".
C8_PruneExactString ==
    Pruned =>
        source_root.kids =
            LET Stays(node) == ~Disqualified(node, call_test_mode)
            IN SelectSeq(source_file.tree.kids, Stays)

\* A "None" gate went, a "False" gate stayed.
C8_Witness ==
    /\ Pruned
    /\ call_parent_name = "tabVisibilities"
    /\ \E n \in Range(source_file.tree.kids) :
          /\ IsFamilyElement(n, call_test_mode)
          /\ GateOf(n, call_test_mode) = Text("None")
    /\ Len(source_root.kids) = 1
    /\ GateOf(source_root.kids[1], call_test_mode) = Text("False")

----------------------------------------------------------------------------
(* C9: every layoutAssignments element of a document is still there after  *)
(* prune_elements.                                                         *)

\* C9: prune_elements keeps every layoutAssignments element.
C9_LayoutAssignmentsSurvive ==
    Pruned =>
        FamilyKids(source_root, "layoutAssignments", call_test_mode) =
            FamilyKids(source_file.tree, "layoutAssignments", call_test_mode)

----------------------------------------------------------------------------
(* C11: when the source or the target file is there but is not well-formed *)
(* XML, the run handles it as it handles a missing file: the path is       *)
(* printed, the status is nonzero and the output file is left as it was.   *)

\* C11: a malformed input is caught and reported like a missing one.
C11_MalformedDocument ==
    /\ source_file.found = "malformed" =>
          /\ pc = "exited"
          /\ uncaught = ""
          /\ stdout = <<NotAvailable(profile_path_source)>>
          /\ exit_status \notin {-1, 0}
          /\ writes = 0 /\ out_file = NoTree
    /\ target_file.found = "malformed" =>
          /\ pc = "exited"
          /\ uncaught = ""
          /\ stdout = <<NotAvailable(profile_path_target)>>
          /\ exit_status \notin {-1, 0}
          /\ writes = 0 /\ out_file = NoTree

----------------------------------------------------------------------------
(* C12: a run of main opens the output file for writing at most once, and  *)
(* only once every family's delta is in the tree in memory; a run that     *)
(* fails earlier leaves the file as it was.                                *)

\* C12: the output file is written at most once, with the delta of all eight
\* families, and a run that ends otherwise leaves it untouched.
C12_AllOrNothingOutput ==
    /\ writes <= 1
    /\ writes = 1 =>
          /\ pc = "done"
          /\ out_file = tostring(root)
          /\ \A f \in Families : FamilyKids(out_file, f, FALSE) = GrantedDelta(f)
    /\ pc # "done" => writes = 0 /\ out_file = NoTree

\* The file was written with elements of two families.
C12_Witness ==
    /\ pc = "done"
    /\ writes = 1
    /\ FamilyKids(out_file, "classAccesses", FALSE) # <<>>
    /\ FamilyKids(out_file, "layoutAssignments", FALSE) # <<>>

----------------------------------------------------------------------------
(* C16: a run of main that succeeds has read the source, read the target   *)
(* and written the output, in that order and nothing else; both documents  *)
(* are pruned before anything is fetched or extracted.                     *)

RunOps ==
    <<FileOp("read", profile_path_source),
      FileOp("read", profile_path_target),
      FileOp("write", profile_path_output)>>

\* tree is what is left of the document of file without its disqualified
\* elements.
PrunedFrom(tree, file) ==
    /\ file.found = "document"
    /\ tree.kids = LET Stays(node) == ~Disqualified(node, FALSE)
                   IN SelectSeq(file.tree.kids, Stays)

\* C16: read source, read target, write output, in that order; the diff and
\* the extraction see two pruned documents.
C16_ThreeFileOperations ==
    /\ \E n \in 0..3 : file_ops = SubSeq(RunOps, 1, n)
    /\ pc = "done" => file_ops = RunOps
    /\ pc \in {"main", "main_prune_source", "main_prune_target",
               "extract_elements"} =>
          root = NoTree /\ names = [f \in Families |-> {}]
    /\ (pc = "extract_elements" \/ Extracted) =>
          /\ SubSeq(file_ops, 1, 2) = SubSeq(RunOps, 1, 2)
          /\ PrunedFrom(source_root, source_file)
          /\ PrunedFrom(target_root, target_file)

\* A run succeeded after both documents lost an element to the pruning.
C16_Witness ==
    /\ pc = "done"
    /\ Len(file_ops) = 3
    /\ Len(source_root.kids) < Len(source_file.tree.kids)
    /\ Len(target_root.kids) < Len(target_file.tree.kids)

----------------------------------------------------------------------------
(* C17: diff_elements and extract_elements leave the source document and   *)
(* the target document as they were, and every element of the output is    *)
(* equal to an element the target still holds.                             *)

\* C17: the library calls change neither of the documents they were given;
\* the output is made of copies of target elements.
C17_InputsUnchanged ==
    /\ source_root = source_file.tree
    /\ target_root = target_file.tree
    /\ pc = "returned" =>
          \A i \in 1..Len(root.kids) :
              root.kids[i] \in Range(target_file.tree.kids)

\* Something was copied out of a target of two elements.
C17_Witness ==
    /\ pc = "returned"
    /\ root.kids # <<>>
    /\ Len(target_root.kids) = 2
    /\ source_root.kids # <<>>

----------------------------------------------------------------------------
(* C19: the elements of one family in the output of extract_elements are   *)
(* those the call gives for the two documents stripped of every other      *)
(* family: what other families hold, even under the same key, changes      *)
(* nothing.                                                                *)

\* The document with the direct elements of one family only.
Only(tree, family, mode) ==
    [tree EXCEPT !.kids = FamilyKids(tree, family, mode)]

\* The two families the documents of a call hold elements of.
CallFamilies == {call_parent_name, OtherFamily(call_parent_name)}

\* C19: a family's part of the output depends on that family's elements only.
C19_FamiliesIndependent ==
    pc = "returned" =>
        \A f \in CallFamilies :
            FamilyKids(root, f, call_test_mode) =
                FamilyKids(
                    extract_elements(
                        Only(source_file.tree, f, call_test_mode),
                        Only(target_file.tree, f, call_test_mode),
                        "Profile", parent_order, call_test_mode),
                    f, call_test_mode)

\* A target element was extracted under a key the source holds in another
\* family.
C19_Witness ==
    /\ pc = "returned"
    /\ "AccountAddressManager" \in
          KeySet(source_file.tree, OtherFamily(call_parent_name),
                 call_test_mode)
    /\ KeySet(source_file.tree, call_parent_name, call_test_mode) = {}
    /\ "AccountAddressManager" \in
          KeySet(root, call_parent_name, call_test_mode)

----------------------------------------------------------------------------
(* C18: prune_elements works through all eight families and hands back the *)
(* document it was given: no direct family element with a disqualifying    *)
(* gate is left, and every other element (of another family, of no family, *)
(* or nested in an element that stays) is where it was, in the same order. *)
(* A tree is a value here, so "the same document" reads: the root it was   *)
(* given, with some of its children detached.                              *)

\* C18: the result is the given root; all it lost are the direct family
\* elements with a disqualifying gate, of whatever family.
C18_PruneFrame ==
    Pruned =>
        LET given == source_file.tree
            Stays(node) == ~Disqualified(node, call_test_mode)
        IN /\ [source_root EXCEPT !.kids = <<>>] = [given EXCEPT !.kids = <<>>]
           /\ \A i \in 1..Len(source_root.kids) : Stays(source_root.kids[i])
           /\ SelectSeq(source_root.kids, Stays) = SelectSeq(given.kids, Stays)

\* A disabled element went while one nested in a granted element stayed.
C18_Witness ==
    /\ Pruned
    /\ Len(source_file.tree.kids) = 2
    /\ Len(source_root.kids) = 1
    /\ \E i \in 1..Len(source_root.kids[1].kids) :
          Disqualified(source_root.kids[1].kids[i], call_test_mode)

----------------------------------------------------------------------------
(* C20: a traversal hands an element to its strategy only when the named   *)
(* child is there and has text: an element whose key child is missing or   *)
(* empty adds no name and is not copied, one whose gate child is missing   *)
(* or empty is not detached.                                               *)

\* The family elements of a document whose gate child is missing or empty.
Ungated(tree, mode) ==
    LET Is(node) == IsFamilyElement(node, mode) /\ GateOf(node, mode) = NoText
    IN SelectSeq(tree.kids, Is)

\* C20: no name and no copy come from an element without key text, and no
\* element without gate text is detached.
C20_CallbackNeedsText ==
    /\ pc # "fetch_elements" =>
          names[call_parent_name] =
              KeySet(source_file.tree, call_parent_name, call_test_mode)
    /\ pc \in {"prune_elements", "traversed"} =>
          \A i \in 1..Len(root.kids) :
              KeyOf(root.kids[i], call_test_mode) # NoText
    /\ pc = "traversed" =>
          Ungated(source_root, call_test_mode) =
              Ungated(source_file.tree, call_test_mode)

\* Of an element with an empty key child and one with no gate child, the
\* second alone was fetched and copied, and it outlasted the pruning.
C20_Witness ==
    /\ pc = "traversed"
    /\ \E n \in Range(source_file.tree.kids) :
          /\ n.kids # <<>>
          /\ KeyOf(n, call_test_mode) = NoText
          /\ GateOf(n, call_test_mode) = Text("false")
    /\ Len(root.kids) = 1
    /\ Len(source_root.kids) = 1
    /\ GateOf(source_root.kids[1], call_test_mode) = NoText

----------------------------------------------------------------------------
(* C13: modify_version sets the two numbers in every direct                *)
(* packageVersions element of the namespace searched that has a child      *)
(* with the prefix as its text, changes nothing else, and returns the root *)
(* exactly when a number changed; conform_metadata writes the file back    *)
(* and counts it exactly then.                                             *)

\* The packageVersions elements modify_version is to bring forward.
HasPrefix(node, mode) ==
    /\ node.ns = ModeNs(mode)
    /\ node.tag = "packageVersions"
    /\ \E i \in 1..Len(node.kids) : node.kids[i].text = Text(call_args.prefix)

\* The element with the two numbers set.
BroughtForward(node, mode) ==
    [node EXCEPT !.kids =
        [i \in 1..Len(@) |->
            IF @[i].ns = ModeNs(mode) /\ @[i].tag = "majorNumber"
            THEN [@[i] EXCEPT !.text = Text(call_args.major_number)]
            ELSE IF @[i].ns = ModeNs(mode) /\ @[i].tag = "minorNumber"
                 THEN [@[i] EXCEPT !.text = Text(call_args.minor_number)]
                 ELSE @[i]]]

\* The document given, with every such element brought forward.
Conformed ==
    [source_file.tree EXCEPT !.kids =
        [i \in 1..Len(@) |->
            IF HasPrefix(@[i], call_test_mode)
            THEN BroughtForward(@[i], call_test_mode)
            ELSE @[i]]]

\* C13: the tree is the given one with the numbers set where the prefix is
\* found; it is returned, written back and counted only if that changed it.
C13_ModifyVersion ==
    /\ pc \in {"returned", "counted"} =>
          /\ source_root = Conformed
          /\ root = IF Conformed # source_file.tree THEN Conformed ELSE NoTree
    /\ pc = "counted" =>
          IF Conformed # source_file.tree
          THEN count = 1 /\ writes = 1 /\ out_file = tostring(Conformed)
          ELSE count = 0 /\ writes = 0 /\ out_file = NoTree

\* One element was brought forward, next to one of another package, and
\* the file was written back.
C13_Witness ==
    /\ pc = "counted"
    /\ count = 1
    /\ Len(source_root.kids) = 2
    /\ source_root.kids[1] # source_file.tree.kids[1]
    /\ source_root.kids[2] = package_versions(SFORCE_URI, "1", "2", "Other")

\* The prefix was found in an element already at the version: None came
\* back and nothing was written.
C13_WitnessUnchanged ==
    /\ pc = "counted"
    /\ \E i \in 1..Len(source_file.tree.kids) :
          HasPrefix(source_file.tree.kids[i], call_test_mode)
    /\ root = NoTree
    /\ writes = 0

----------------------------------------------------------------------------
(* C14: modify_field_sets appends to every direct fieldSets element one    *)
(* availableFields entry for each master field it does not display, in the *)
(* order of the master list, and changes nothing else; every master field  *)
(* is then displayed or available in every fieldSets element.  (An entry   *)
(* made by SubElement carries no namespace until the document is written.) *)

IsFieldSets(node, mode) == node.ns = ModeNs(mode) /\ node.tag = "fieldSets"

\* The field texts of the children of a fieldSets element that have the
\* given name.
FieldsOf(field_set, ns, tag) ==
    {ChildText(field_set.kids[i], "field", ns = "") :
        i \in {j \in 1..Len(field_set.kids) :
                  field_set.kids[j].ns = ns /\ field_set.kids[j].tag = tag}}

Displayed(field_set, mode) == FieldsOf(field_set, ModeNs(mode), "displayedFields")

AvailableEntry(field) ==
    Node("", "availableFields", NoText,
         <<Node("", "field", Text(field), <<>>),
           Node("", "isFieldManaged", Text("false"), <<>>),
           Node("", "isRequired", Text("false"), <<>>)>>)

\* The entries a fieldSets element is to get, in master-list order.
EntriesFor(field_set, mode) ==
    LET Missing(field) == Text(field) \notin Displayed(field_set, mode)
        missing == SelectSeq(call_args.fields, Missing)
    IN [k \in 1..Len(missing) |-> AvailableEntry(missing[k])]

\* The document given, with those entries appended to each fieldSets element.
Extended ==
    [source_file.tree EXCEPT !.kids =
        [i \in 1..Len(@) |->
            IF IsFieldSets(@[i], call_test_mode)
            THEN [@[i] EXCEPT !.kids = @ \o EntriesFor(source_file.tree.kids[i],
                                                       call_test_mode)]
            ELSE @[i]]]

\* C14: each fieldSets element gets the entries it lacks, at its end and in
\* master-list order; all else stays; every master field is then displayed
\* or available in it.
C14_ModifyFieldSets ==
    pc = "modified" =>
        /\ source_root = Extended
        /\ source_root # source_file.tree => root = source_root
        /\ \A i \in 1..Len(source_root.kids) :
              IsFieldSets(source_root.kids[i], call_test_mode) =>
                  \A k \in 1..Len(call_args.fields) :
                      Text(call_args.fields[k]) \in
                          Displayed(source_root.kids[i], call_test_mode)
                              \cup FieldsOf(source_root.kids[i], "",
                                            "availableFields")
                              \cup FieldsOf(source_root.kids[i],
                                            ModeNs(call_test_mode),
                                            "availableFields")

\* The two fieldSets of the example, extended as its doctest prints them.
C14_Witness ==
    /\ pc = "modified"
    /\ call_args.fields = TEST_LIST
    /\ Len(source_file.tree.kids) = 2
    /\ Displayed(source_file.tree.kids[1], call_test_mode)
          = {Text("AccountNumber")}
    /\ Displayed(source_file.tree.kids[2], call_test_mode)
          = {Text("AnnualRevenue")}
    /\ Len(root.kids[1].kids) = 5 /\ Len(root.kids[2].kids) = 5
    /\ root.kids[2].kids[4] = AvailableEntry("AccountNumber")
    /\ root.kids[2].kids[5] = AvailableEntry("AccountSource")

----------------------------------------------------------------------------
(* C15: strip_listviews detaches every listViews element directly under    *)
(* the root; every other element, with all that is under it, is still      *)
(* there, unchanged and in the same order.                                 *)

IsListViews(node, mode) == node.ns = ModeNs(mode) /\ node.tag = "listViews"

\* C15: no direct listViews element is left, and the rest is as it was.
C15_StripListViews ==
    pc \in {"stripped", "saved"} =>
        LET Other(node) == ~IsListViews(node, call_test_mode)
        IN /\ \A i \in 1..Len(source_root.kids) : Other(source_root.kids[i])
           /\ source_root =
                 [source_file.tree EXCEPT !.kids = SelectSeq(@, Other)]
           /\ root = source_root

\* Two listViews went; a fieldSets with a listViews under it stayed whole.
C15_Witness ==
    /\ pc = "stripped"
    /\ Len(source_file.tree.kids) = 3
    /\ IsListViews(source_file.tree.kids[1], call_test_mode)
    /\ IsListViews(source_file.tree.kids[3], call_test_mode)
    /\ Len(root.kids) = 1
    /\ \E i \in 1..Len(root.kids[1].kids) :
          IsListViews(root.kids[1].kids[i], call_test_mode)

----------------------------------------------------------------------------
(* C21: layoutAssignments has the gate "None" in the table, which the      *)
(* traversal takes for the name of a child.  As stated, the callback of    *)
(* the pruning runs for each layoutAssignments element.  As the code has   *)
(* it, the callback runs for those elements only that hold a child named   *)
(* None with text, and it is that text which is compared with "false" and  *)
(* "None".                                                                 *)

\* The do_yield calls the first prune_elements call made for one family.
CallsFor(family) ==
    LET Is(call) == call.parent_name = family IN SelectSeq(callbacks, Is)

\* The layoutAssignments elements directly under the root of the document
\* given.
LayoutAssignments ==
    FamilyKids(source_file.tree, "layoutAssignments", call_test_mode)

\* C21 as stated: the callback of the pruning has run for each
\* layoutAssignments element of the document.
C21_CallbackForEachElement ==
    pc = "prune_elements again" =>
        \A n \in Range(LayoutAssignments) :
            \E i \in 1..Len(callbacks) :
                /\ callbacks[i].parent_name = "layoutAssignments"
                /\ callbacks[i].parent = n

\* C21: the callback runs, in document order, for exactly the
\* layoutAssignments elements that hold a child named None with text; it is
\* handed that text, and the element is detached when the text is "false"
\* or "None".
C21_CallbackForGatedElement ==
    pc = "prune_elements again" =>
        LET Gated(n) == GateOf(n, call_test_mode) # NoText
            gated == SelectSeq(LayoutAssignments, Gated)
            Stays(n) == GateOf(n, call_test_mode) \notin
                            {Text("false"), Text("None")}
        IN /\ CallsFor("layoutAssignments") =
                 [k \in 1..Len(gated) |->
                     Callback("layoutAssignments", gated[k],
                              GateOf(gated[k], call_test_mode)[1])]
           /\ FamilyKids(source_root, "layoutAssignments", call_test_mode) =
                 SelectSeq(LayoutAssignments, Stays)

\* Of two layoutAssignments elements, the one with a child None of text
\* "true" got the callback and stayed, the one without such a child got none.
C21_Witness ==
    /\ pc = "prune_elements again"
    /\ call_parent_name = "layoutAssignments"
    /\ Len(LayoutAssignments) = 2
    /\ GateOf(LayoutAssignments[1], call_test_mode) = Text("true")
    /\ LayoutAssignments[2].kids # <<>>
    /\ \A i \in 1..Len(LayoutAssignments[2].kids) :
          LayoutAssignments[2].kids[i].tag # "None"
    /\ Len(callbacks) = 1
    /\ callbacks[1].child_text = "true"
    /\ Len(source_root.kids) = 2

----------------------------------------------------------------------------
(* C22: on documents whose elements are all in the namespace of the mode,  *)
(* prune_elements, fetch_elements, diff_elements and extract_elements give *)
(* in one mode what they give in the other mode on the same documents put  *)
(* in that mode's namespace; and the three traversals pick their elements  *)
(* by one rule: a direct child of the root with the family's name (in the  *)
(* namespace of the mode) that has the named child with text.              *)

\* The document with every element under its root put in the namespace of
\* the mode.
InMode(tree, mode) ==
    [tree EXCEPT !.kids =
        [i \in 1..Len(@) |-> InNamespace(@[i], ModeNs(mode))]]

CallsInMode(calls, mode) ==
    [i \in 1..Len(calls) |->
        [calls[i] EXCEPT !.parent = InNamespace(@, ModeNs(mode))]]

\* What the other mode makes of the same two documents.
OtherMode == ~call_test_mode
OtherSource == InMode(source_file.tree, OtherMode)
OtherTarget == InMode(target_file.tree, OtherMode)
OtherPrunedSource == prune_elements(OtherSource, parent_order, OtherMode)
OtherPrunedTarget == prune_elements(OtherTarget, parent_order, OtherMode)

ModesAgree ==
    \A source \in {OtherPrunedSource}, target \in {OtherPrunedTarget} :
        /\ pc # "prune_elements source" =>
              source_root = InMode(source, call_test_mode)
        /\ pc \notin {"prune_elements source", "prune_elements target"} =>
              /\ target_root = InMode(target, call_test_mode)
              /\ callbacks =
                    CallsInMode(
                        prune_elements_calls(OtherSource, parent_order,
                                             OtherMode)
                            \o prune_elements_calls(OtherTarget, parent_order,
                                                    OtherMode),
                        call_test_mode)
        /\ pc = "diff_elements" =>
              names = [f \in Families |->
                          fetch_elements(target, f, OtherMode)]
        /\ pc \in {"extract_elements", "returned"} =>
              names = [f \in Families |->
                          diff_elements(source, target, f, OtherMode)]
        /\ pc = "returned" =>
              root = InMode(extract_elements(source, target, "Profile",
                                             parent_order, OtherMode),
                            call_test_mode)

\* The rule: the element is of the family and has the named child with text.
Selected(node, family, child_name, mode) ==
    /\ InFamily(node, family, mode)
    /\ ChildText(node, child_name, mode) # NoText

OneSelectionRule ==
    LET mode == call_test_mode
        Key(f) == PARENTS[f][FETCH_CHILD]
        Gate(f) == PARENTS[f][PRUNE_CHILD]
        Removed(n) ==
            \E f \in Families :
                /\ Selected(n, f, Gate(f), mode)
                /\ ChildText(n, Gate(f), mode)[1] \in {"false", "None"}
        Stays(n) == ~Removed(n)
        Fetched(tree, f) ==
            {ChildText(n, Key(f), mode)[1] :
                n \in {m \in Range(tree.kids) : Selected(m, f, Key(f), mode)}}
    IN /\ pc # "prune_elements source" =>
             source_root.kids = SelectSeq(source_file.tree.kids, Stays)
       /\ pc = "diff_elements" =>
             \A f \in Families : names[f] = Fetched(target_root, f)
       /\ pc = "returned" =>
             \A f \in Families :
                 LET Copied(n) ==
                         /\ Selected(n, f, Key(f), mode)
                         /\ ChildText(n, Key(f), mode)[1] \in names[f]
                 IN FamilyKids(root, f, mode) =
                        SelectSeq(target_root.kids, Copied)

\* C22: either mode selects, removes and copies the same elements of a
\* document that is uniformly in that mode's namespace, and fetch, prune and
\* extract select by the one rule.
C22_NamespaceMode == ModesAgree /\ OneSelectionRule

\* In test mode, on documents without namespace: an element was pruned from
\* each document and one was copied to the output.
C22_Witness ==
    /\ pc = "returned"
    /\ call_test_mode
    /\ Len(source_root.kids) < Len(source_file.tree.kids)
    /\ Len(target_root.kids) < Len(target_file.tree.kids)
    /\ Len(root.kids) = 1
    /\ root.kids[1].ns = ""

----------------------------------------------------------------------------
(* C23: the document main writes has one namespace: its root and every     *)
(* element under it, the label of a permission set included, are in the    *)
(* metadata namespace.  (In memory the label has no namespace; it is       *)
(* written as a bare tag under the root's default namespace.)              *)

RECURSIVE Uniform(_, _)
Uniform(node, ns) ==
    /\ node.ns = ns
    /\ \A i \in 1..Len(node.kids) : Uniform(node.kids[i], ns)

\* C23: the written document is a Profile or a PermissionSet that is in the
\* metadata namespace throughout.
C23_UniformNamespace ==
    pc = "done" =>
        /\ out_file.tag \in {"Profile", "PermissionSet"}
        /\ Uniform(out_file, SFORCE_URI)

\* A permission set was written with a family element and the label.
C23_Witness ==
    /\ pc = "done"
    /\ out_file.tag = "PermissionSet"
    /\ Len(out_file.kids) = 2
    /\ IsFamilyElement(out_file.kids[1], FALSE)
    /\ out_file.kids[2] = LabelElement(SFORCE_URI)
    /\ root.kids[2].ns = ""

----------------------------------------------------------------------------
(* C24: the sample output of profile_delta.py shows a userPermissions      *)
(* element; so an enabled userPermissions element of the target whose name *)
(* the source does not hold is to be in the document written.              *)

IsUserPermission(node) ==
    /\ node.ns = SFORCE_URI
    /\ node.tag = "userPermissions"
    /\ ChildText(node, "enabled", FALSE) = Text("true")

\* C24: every enabled userPermissions element of the target that the source
\* lacks is in the document written.
C24_UserPermissionsCopied ==
    pc = "done" =>
        \A n \in Range(target_file.tree.kids) :
            (/\ IsUserPermission(n)
             /\ \A m \in Range(source_file.tree.kids) :
                   ~(IsUserPermission(m)
                       /\ ChildText(m, "name", FALSE)
                              = ChildText(n, "name", FALSE)))
                => n \in Range(out_file.kids)

----------------------------------------------------------------------------
(* C25: the message update_package_version returns for an installed        *)
(* prefix gives the number of metadata files written back for it, over     *)
(* all the source directories.                                             *)

\* C25: the count in the message is the number of files written back in all
\* source directories together.
C25_MessageCountsAllDirectories ==
    (pc = "returned" /\ source_file.found = "document") =>
        /\ Len(stdout) = 1
        /\ stdout[1].count = writes

----------------------------------------------------------------------------
(* C26: in a run of main, where both documents are pruned before the       *)
(* delta is taken, no element of the eight families with the gate text     *)
(* "false" or "None" is in the output, in memory or as written.            *)

\* C26: every family element of the output grants access.
C26_OutputHoldsNoDisabledElement ==
    /\ Extracted =>
          \A i \in 1..Len(root.kids) :
              IsFamilyElement(root.kids[i], FALSE) => Grants(root.kids[i], FALSE)
    /\ pc = "done" =>
          \A i \in 1..Len(out_file.kids) :
              IsFamilyElement(out_file.kids[i], FALSE) =>
                  Grants(out_file.kids[i], FALSE)

\* The target held an element gated "None" and one gated "false" that the
\* source lacks; the output was written with its one granted element.
C26_Witness ==
    /\ pc = "done"
    /\ source_file.tree.kids = <<>>
    /\ \E n \in Range(target_file.tree.kids) :
          IsFamilyElement(n, FALSE) /\ GateOf(n, FALSE) = Text("None")
    /\ \E n \in Range(target_file.tree.kids) :
          IsFamilyElement(n, FALSE) /\ GateOf(n, FALSE) = Text("false")
    /\ \E n \in Range(out_file.kids) : IsFamilyElement(n, FALSE)

----------------------------------------------------------------------------
(* C27: in a run of main, each family element of the output is equal to a  *)
(* direct child of the target root and to no child of the source root;     *)
(* what else the output holds is its root and, in a permission set, the    *)
(* label.                                                                  *)

\* The children of the output that are no label made by main.
Copies(tree, label_ns) ==
    LET Is(node) == node # LabelElement(label_ns) IN SelectSeq(tree.kids, Is)

\* C27: the output is a fresh root, copies of target elements that the
\* source does not hold and, in a permission set only, one label.
C27_CopiesOfTargetOnly ==
    /\ Extracted =>
          /\ [root EXCEPT !.kids = <<>>] =
                sforce_root(root_name(profile_path_output))
          /\ \A n \in Range(Copies(root, "")) :
                /\ IsFamilyElement(n, FALSE)
                /\ n \in Range(target_file.tree.kids)
                /\ n \in Range(target_root.kids)
                /\ n \notin Range(source_file.tree.kids)
                /\ n \notin Range(source_root.kids)
    /\ pc = "label" => Copies(root, "") = root.kids
    /\ Labelled =>
          root.kids = Copies(root, "")
              \o (IF root.tag = "PermissionSet"
                  THEN <<LabelElement("")>> ELSE <<>>)
    /\ pc = "done" =>
          /\ \A n \in Range(Copies(out_file, SFORCE_URI)) :
                /\ n \in Range(target_file.tree.kids)
                /\ n \notin Range(source_file.tree.kids)
          /\ Len(Copies(out_file, SFORCE_URI)) = Len(Copies(root, ""))

\* A permission set was written with one element of the target and the
\* label, while source and target share another element.
C27_Witness ==
    /\ pc = "done"
    /\ Len(source_root.kids) = 1
    /\ Len(target_root.kids) = 2
    /\ source_root.kids[1] \in Range(target_root.kids)
    /\ Len(out_file.kids) = 2
    /\ out_file.kids[1] \in Range(target_root.kids)
    /\ out_file.kids[2] = LabelElement(SFORCE_URI)

----------------------------------------------------------------------------
(* C28: a run of main whose source file cannot be read (it is missing, or  *)
(* it is not well-formed) ends there: the target file is parsed only once  *)
(* the source document is in memory, pruned.                               *)

\* C28: an unreadable source ends the run with the target untouched; the
\* target is read only after the source was loaded and pruned.
C28_SourceBeforeTarget ==
    /\ source_file.found \in {"missing", "malformed"} =>
          /\ pc \in {"exited", "raised"}
          /\ exit_status = 1
          /\ file_ops = <<FileOp("read", profile_path_source)>>
          /\ target_file = Unread
          /\ target_root = NoTree
    /\ (target_file # Unread \/ target_root # NoTree
          \/ FileOp("read", profile_path_target) \in Range(file_ops)) =>
          /\ file_ops[1] = FileOp("read", profile_path_source)
          /\ PrunedFrom(source_root, source_file)

\* The source file was missing: the run ended after one file operation.
C28_Witness ==
    /\ source_file.found = "missing"
    /\ pc = "exited"
    /\ Len(file_ops) = 1
    /\ target_file = Unread

----------------------------------------------------------------------------
(* C29: when no fieldSets element of the Account object lacks an entry     *)
(* (each displays every master field, or there is none), the document main *)
(* saves is the document it read.                                          *)

\* No fieldSets element of the document read is to get an entry.
NothingToAdd ==
    \A i \in 1..Len(source_file.tree.kids) :
        IsFieldSets(source_file.tree.kids[i], call_test_mode) =>
            EntriesFor(source_file.tree.kids[i], call_test_mode) = <<>>

\* C29: with nothing to add, the file saved holds what the file read held.
C29_UnchangedWhenNothingToAdd ==
    (pc = "saved" /\ NothingToAdd) => out_file = tostring(source_file.tree)

====
